---- MODULE Spec2Model ----
(***************************************************************************)
(* Model of the logger subsystem of agentic-nextjs-ts-starter:             *)
(*   - logger-validation (validateLogPath, validateSyslogHost,             *)
(*     validateSyslogPort, validateFileMode),                              *)
(*   - the configuration factory getLoggerConfig and its helpers,          *)
(*   - the module-level state of logger.ts and switchLogOutput /           *)
(*     getLoggerOutputMode.                                                *)
(*                                                                         *)
(* JavaScript strings whose characters the code inspects (paths, hosts,    *)
(* numbers read from the environment) are sequences of one-character       *)
(* strings.  Strings the code only compares or tests for truthiness        *)
(* (NODE_ENV, LOG_LEVEL, LOG_OUTPUT, mode names) are TLA+ strings.         *)
(* process.env is a function whose domain is the set of variables set.     *)
(***************************************************************************)
EXTENDS Integers, Sequences, FiniteSets, TLC

(***************************************************************************)
(* Bounds of the model.                                                    *)
(***************************************************************************)
\* number of loggers pino() may construct after startup
MaxBuilds == 2
\* number of logical requests that may hold the exported handle
MaxRequests == 1

(***************************************************************************)
(* Characters and string helpers.                                          *)
(***************************************************************************)
Digits == {"0", "1", "2", "3", "4", "5", "6", "7", "8", "9"}

LowerLetters ==
  {"a", "b", "c", "d", "e", "f", "g", "h", "i", "j", "k", "l", "m",
   "n", "o", "p", "q", "r", "s", "t", "u", "v", "w", "x", "y", "z"}

UpperLetters ==
  {"A", "B", "C", "D", "E", "F", "G", "H", "I", "J", "K", "L", "M",
   "N", "O", "P", "Q", "R", "S", "T", "U", "V", "W", "X", "Y", "Z"}

AlphaNum == Digits \cup LowerLetters \cup UpperLetters

DigitVal(c) ==
  CASE c = "0" -> 0 [] c = "1" -> 1 [] c = "2" -> 2 [] c = "3" -> 3
    [] c = "4" -> 4 [] c = "5" -> 5 [] c = "6" -> 6 [] c = "7" -> 7
    [] c = "8" -> 8 [] c = "9" -> 9

\* String.prototype.includes
Includes(s, sub) ==
  \E i \in 1..(Len(s) - Len(sub) + 1) : SubSeq(s, i, i + Len(sub) - 1) = sub

\* String.prototype.startsWith
StartsWith(s, p) == Len(p) <= Len(s) /\ SubSeq(s, 1, Len(p)) = p

\* the first position from i on where s has sep, Len(s) + 1 when none
NextSep(s, sep, i) ==
  CHOOSE j \in i..(Len(s) + 1) :
    /\ j = Len(s) + 1 \/ s[j] = sep
    /\ \A k \in i..(j - 1) : s[k] # sep

\* s.split(sep) for a one-character separator: the pieces from position i
\* on, j being the next separator
RECURSIVE SplitFrom(_, _, _, _)
SplitFrom(s, sep, i, j) ==
  IF j > Len(s) THEN << SubSeq(s, i, Len(s)) >>
  ELSE << SubSeq(s, i, j - 1) >> \o SplitFrom(s, sep, j + 1, NextSep(s, sep, j + 1))

Split(s, sep) == SplitFrom(s, sep, 1, NextSep(s, sep, 1))

\* parts.join(sep)
RECURSIVE Join(_, _)
Join(parts, sep) ==
  IF Len(parts) = 0 THEN <<>>
  ELSE IF Len(parts) = 1 THEN parts[1]
  ELSE parts[1] \o <<sep>> \o Join(Tail(parts), sep)

(***************************************************************************)
(* node:path (posix) normalize and isAbsolute, as validateLogPath uses     *)
(* them.                                                                   *)
(***************************************************************************)
\* normalizeString: resolve "." and ".." segments and collapse separators;
\* out is the stack of segments kept so far.
RECURSIVE NormalizeSegs(_, _, _)
NormalizeSegs(segs, allowAboveRoot, out) ==
  IF Len(segs) = 0 THEN out
  ELSE
    LET seg == Head(segs)
        rest == Tail(segs)
    IN  IF seg = <<>> \/ seg = <<".">> THEN NormalizeSegs(rest, allowAboveRoot, out)
        ELSE IF seg = <<".", ".">> THEN
          IF Len(out) > 0 /\ out[Len(out)] # <<".", ".">>
            THEN NormalizeSegs(rest, allowAboveRoot, SubSeq(out, 1, Len(out) - 1))
          ELSE IF allowAboveRoot
            THEN NormalizeSegs(rest, allowAboveRoot, Append(out, seg))
          ELSE NormalizeSegs(rest, allowAboveRoot, out)
        ELSE NormalizeSegs(rest, allowAboveRoot, Append(out, seg))

isAbsolute(path) == Len(path) > 0 /\ path[1] = "/"

normalize(path) ==
  IF Len(path) = 0 THEN <<".">>
  ELSE
    LET abs == path[1] = "/"
        trailingSeparator == path[Len(path)] = "/"
        body == Join(NormalizeSegs(Split(path, "/"), ~abs, <<>>), "/")
    IN  IF Len(body) = 0
          THEN IF abs THEN <<"/">>
               ELSE IF trailingSeparator THEN <<".", "/">> ELSE <<".">>
          ELSE (IF abs THEN <<"/">> ELSE <<>>) \o body
               \o (IF trailingSeparator THEN <<"/">> ELSE <<>>)

(***************************************************************************)
(* logger-validation: constants.                                           *)
(***************************************************************************)
MAX_PATH_LENGTH == 4096
MAX_HOSTNAME_LENGTH == 255
MIN_PORT_NUMBER == 1
MAX_PORT_NUMBER == 65535
PRIVILEGED_PORT_THRESHOLD == 1024
\* 0o640
DEFAULT_FILE_MODE == 416
\* 0o777
MAX_FILE_MODE == 511
\* 0o077
OTHER_USERS_PERMISSION_MASK == 63

(***************************************************************************)
(* The result of a validator: ok, or the kind of error thrown; together    *)
(* with the warnings written to process.stderr.                            *)
(***************************************************************************)
Ok == "ok"

restrictedPaths ==
  << <<"/", "e", "t", "c">>,
     <<"/", "u", "s", "r">>,
     <<"/", "b", "i", "n">>,
     <<"/", "s", "b", "i", "n">>,
     <<"/", "b", "o", "o", "t">>,
     <<"/", "d", "e", "v">>,
     <<"/", "p", "r", "o", "c">>,
     <<"/", "s", "y", "s">>,
     <<"/", "r", "o", "o", "t">>,
     <<"C", ":", "\\", "W", "i", "n", "d", "o", "w", "s">>,
     <<"C", ":", "\\", "P", "r", "o", "g", "r", "a", "m", " ", "F", "i", "l", "e", "s">> >>

\* isAbsolute(normalizedPath) ? normalizedPath : normalize(`/${normalizedPath}`)
absolutePathOf(normalizedPath) ==
  IF isAbsolute(normalizedPath) THEN normalizedPath
  ELSE normalize(<<"/">> \o normalizedPath)

\* the checks of validateLogPath on a non-empty path, in the order of the
\* source: "..", restricted directory, null byte, length
validateLogPathChecks(path, absolutePath) ==
  IF Includes(path, <<".", ".">>)
    THEN "Log file path cannot contain parent directory references (..)"
  ELSE IF \E i \in 1..Len(restrictedPaths) :
            StartsWith(absolutePath, normalize(restrictedPaths[i]))
    THEN "Log file path cannot be in restricted directory"
  ELSE IF Includes(path, <<"\\0">>)
    THEN "Log file path cannot contain null bytes"
  ELSE IF Len(path) > MAX_PATH_LENGTH
    THEN "Log file path is too long"
  ELSE Ok

\* validateLogPath(path): Ok, or the error it throws
validateLogPath(path) ==
  IF Len(path) = 0 THEN "Log file path must be a non-empty string"
  ELSE validateLogPathChecks(path, absolutePathOf(normalize(path)))

(***************************************************************************)
(* JavaScript numbers read from strings: a number, or NaN, or undefined.   *)
(***************************************************************************)
Num(n) == [t |-> "number", v |-> n]
NaN == [t |-> "NaN", v |-> 0]
Undefined == [t |-> "undefined", v |-> 0]
\* the number n + 1/2
Fraction(n) == [t |-> "fraction", v |-> n]

Whitespace == {" ", "\t", "\n"}

RECURSIVE SkipWhitespace(_)
SkipWhitespace(s) ==
  IF Len(s) > 0 /\ Head(s) \in Whitespace THEN SkipWhitespace(Tail(s)) ELSE s

\* the longest prefix of s made of digits below the radix, as a number;
\* acc is the value so far and any tells whether a digit was read
RECURSIVE ParseDigits(_, _, _, _)
ParseDigits(s, radix, acc, any) ==
  IF Len(s) > 0 /\ Head(s) \in Digits /\ DigitVal(Head(s)) < radix
    THEN ParseDigits(Tail(s), radix, acc * radix + DigitVal(Head(s)), TRUE)
    ELSE IF any THEN Num(acc) ELSE NaN

\* Number.parseInt(s, radix) for radix 8 or 10
parseInt(s, radix) ==
  LET t == SkipWhitespace(s)
      neg == Len(t) > 0 /\ Head(t) = "-"
      u == IF Len(t) > 0 /\ Head(t) \in {"-", "+"} THEN Tail(t) ELSE t
      r == ParseDigits(u, radix, 0, FALSE)
  IN  IF r.t = "number" /\ neg THEN Num(0 - r.v) ELSE r

(***************************************************************************)
(* node:net isIP: 4, 6, or 0.                                              *)
(***************************************************************************)
\* v4Seg: 25[0-5] | 2[0-4]\d | 1\d\d | [1-9]\d | \d
isV4Seg(seg) ==
  /\ Len(seg) \in 1..3
  /\ \A i \in 1..Len(seg) : seg[i] \in Digits
  /\ (Len(seg) > 1 => seg[1] # "0")
  /\ parseInt(seg, 10).v <= 255

isIPv4(s) ==
  LET parts == Split(s, ".")
  IN  Len(parts) = 4 /\ \A i \in 1..4 : isV4Seg(parts[i])

HexDigits == Digits \cup {"a", "b", "c", "d", "e", "f", "A", "B", "C", "D", "E", "F"}

isV6Seg(seg) == Len(seg) \in 1..4 /\ \A i \in 1..Len(seg) : seg[i] \in HexDigits

ZoneChars == AlphaNum \cup {"-", ".", ":"}

\* a run of colon-separated groups, the last of which may be a dotted quad
\* when v4Last; its weight counts a dotted quad as two groups
GroupsOk(gs, v4Last) ==
  \A i \in 1..Len(gs) :
    isV6Seg(gs[i]) \/ (v4Last /\ i = Len(gs) /\ isIPv4(gs[i]))

GroupsWeight(gs) ==
  IF Len(gs) > 0 /\ isIPv4(gs[Len(gs)]) THEN Len(gs) + 1 ELSE Len(gs)

\* the position of the first "::" of s, or 0
FirstDoubleColon(s) ==
  IF Includes(s, <<":", ":">>)
    THEN CHOOSE i \in 1..(Len(s) - 1) :
           /\ s[i] = ":" /\ s[i + 1] = ":"
           /\ \A j \in 1..(i - 1) : ~(s[j] = ":" /\ s[j + 1] = ":")
    ELSE 0

\* the position of the first "%" of s, or 0
FirstPercent(s) ==
  IF \E i \in 1..Len(s) : s[i] = "%"
    THEN CHOOSE i \in 1..Len(s) : s[i] = "%" /\ \A j \in 1..(i - 1) : s[j] # "%"
    ELSE 0

\* the groups after the "::" at dc
RightGroups(addr, dc) ==
  IF dc + 2 > Len(addr) THEN <<>> ELSE Split(SubSeq(addr, dc + 2, Len(addr)), ":")

\* the groups before the "::" at dc
LeftGroups(addr, dc) ==
  IF dc <= 1 THEN <<>> ELSE Split(SubSeq(addr, 1, dc - 1), ":")

CompressedOk(left, right) ==
  /\ GroupsOk(left, FALSE)
  /\ GroupsOk(right, TRUE)
  /\ Len(left) + GroupsWeight(right) <= 7

FullOk(all) == GroupsOk(all, TRUE) /\ GroupsWeight(all) = 8

\* an IPv6 address without its zone; dc is the position of its first "::"
isIPv6Addr(addr, dc) ==
  IF dc = 0 THEN Len(addr) > 0 /\ FullOk(Split(addr, ":"))
  ELSE CompressedOk(LeftGroups(addr, dc), RightGroups(addr, dc))

ZoneOk(zone) == Len(zone) >= 1 /\ \A i \in 1..Len(zone) : zone[i] \in ZoneChars

AddrOk(addr) == isIPv6Addr(addr, FirstDoubleColon(addr))

\* pct is the position of the first "%" of s, or 0
isIPv6At(s, pct) ==
  IF pct = 0 THEN AddrOk(s)
  ELSE ZoneOk(SubSeq(s, pct + 1, Len(s))) /\ AddrOk(SubSeq(s, 1, pct - 1))

isIPv6(s) == isIPv6At(s, FirstPercent(s))

isIP(s) == IF isIPv4(s) THEN 4 ELSE IF isIPv6(s) THEN 6 ELSE 0

\* String.prototype.toLowerCase, on the letters of the localhost variants
ToLowerChar(c) ==
  CASE c = "L" -> "l" [] c = "O" -> "o" [] c = "C" -> "c" [] c = "A" -> "a"
    [] c = "H" -> "h" [] c = "S" -> "s" [] c = "T" -> "t"
    [] OTHER -> c

toLowerCase(s) == [i \in 1..Len(s) |-> ToLowerChar(s[i])]

(***************************************************************************)
(* logger-validation: hosts, ports, file modes.  Each returns the error    *)
(* thrown (Ok when none) and the warnings written to process.stderr.       *)
(***************************************************************************)
\* one label of /^[a-z0-9](?:[a-z0-9-]{0,61}[a-z0-9])?$/i
isHostLabel(l) ==
  /\ Len(l) \in 1..63
  /\ \A i \in 1..Len(l) : l[i] \in AlphaNum \cup {"-"}
  /\ l[1] \in AlphaNum
  /\ l[Len(l)] \in AlphaNum

hostnameRegexTest(host) ==
  LET labels == Split(host, ".")
  IN  \A i \in 1..Len(labels) : isHostLabel(labels[i])

localhostVariants ==
  { <<"l", "o", "c", "a", "l", "h", "o", "s", "t">>,
    <<"1", "2", "7", ".", "0", ".", "0", ".", "1">>,
    <<":", ":", "1">>,
    <<"0", ".", "0", ".", "0", ".", "0">> }

\* process.env.NODE_ENV === 'production', on the raw environment
RawIsProduction(e) == "NODE_ENV" \in DOMAIN e /\ e["NODE_ENV"] = "production"

\* validateSyslogHost applying the length limit to IP literals too
validateSyslogHostLengthFirst(host, e) ==
  IF Len(host) = 0
    THEN [err |-> "Syslog host must be a non-empty string", warn |-> <<>>]
  ELSE IF Len(host) > MAX_HOSTNAME_LENGTH
    THEN [err |-> "Syslog host is too long", warn |-> <<>>]
  ELSE IF isIP(host) # 0 \/ hostnameRegexTest(host)
    THEN [err |-> Ok, warn |-> <<>>]
  ELSE [err |-> "Syslog host must be a valid hostname or IP address", warn |-> <<>>]

validateSyslogHost(host, e) ==
  IF Len(host) = 0
    THEN [err |-> "Syslog host must be a non-empty string", warn |-> <<>>]
  ELSE IF isIP(host) # 0
    THEN [err |-> Ok, warn |-> <<>>]
  ELSE IF Len(host) > MAX_HOSTNAME_LENGTH
    THEN [err |-> "Syslog host is too long", warn |-> <<>>]
  ELSE IF ~hostnameRegexTest(host)
    THEN [err |-> "Syslog host must be a valid hostname or IP address", warn |-> <<>>]
  ELSE IF RawIsProduction(e) /\ toLowerCase(host) \in localhostVariants
    THEN [err |-> Ok,
          warn |-> <<"Warning: Using localhost for syslog in production is not recommended">>]
  ELSE [err |-> Ok, warn |-> <<>>]

\* validateSyslogPort without the upper limit
validateSyslogPortNoMax(port, e) ==
  IF port.t = "undefined"
    THEN [err |-> Ok, warn |-> <<>>]
  ELSE IF port.t # "number"
    THEN [err |-> "Syslog port must be an integer", warn |-> <<>>]
  ELSE IF port.v < MIN_PORT_NUMBER
    THEN [err |-> "Syslog port must be between 1 and 65535", warn |-> <<>>]
  ELSE [err |-> Ok, warn |-> <<>>]

\* port is Undefined, NaN, Num(n) or Fraction(n); only Num(n) is an integer
validateSyslogPort(port, e) ==
  IF port.t = "undefined"
    THEN [err |-> Ok, warn |-> <<>>]
  ELSE IF port.t # "number"
    THEN [err |-> "Syslog port must be an integer", warn |-> <<>>]
  ELSE IF port.v < MIN_PORT_NUMBER \/ port.v > MAX_PORT_NUMBER
    THEN [err |-> "Syslog port must be between 1 and 65535", warn |-> <<>>]
  ELSE IF port.v < PRIVILEGED_PORT_THRESHOLD /\ RawIsProduction(e)
    THEN [err |-> Ok,
          warn |-> <<"Warning: Using privileged port for syslog may require elevated permissions">>]
  ELSE [err |-> Ok, warn |-> <<>>]

\* n & 0o077 for 0 <= n
BitAndOtherUsers(n) == n % (OTHER_USERS_PERMISSION_MASK + 1)

\* validateFileMode without the check against MAX_FILE_MODE
validateNumericModeNoMax(numericMode) ==
  IF numericMode.t = "NaN" \/ numericMode.v < 0
    THEN [mode |-> Num(DEFAULT_FILE_MODE),
          warn |-> <<"Invalid file mode, using default 640">>]
  ELSE [mode |-> numericMode, warn |-> <<>>]

\* validateFileMode on a number (the mode given, or parsed from a string):
\* the number returned and the warnings.  Fraction(n) is below 0 when
\* n < 0 and above MAX_FILE_MODE when n >= MAX_FILE_MODE; the bitwise and
\* truncates it to n.
validateNumericMode(numericMode) ==
  IF \/ numericMode.t = "NaN"
     \/ numericMode.v < 0
     \/ numericMode.v > MAX_FILE_MODE
     \/ numericMode.t = "fraction" /\ numericMode.v = MAX_FILE_MODE
    THEN [mode |-> Num(DEFAULT_FILE_MODE),
          warn |-> <<"Invalid file mode, using default 640">>]
  ELSE IF BitAndOtherUsers(numericMode.v) # 0
    THEN [mode |-> numericMode,
          warn |-> <<"Warning: Log file permissions allow access to other users/groups">>]
  ELSE [mode |-> numericMode, warn |-> <<>>]

\* validateFileMode(process.env.LOG_FILE_PERMISSIONS): the argument is a
\* string, parsed as octal, or undefined
validateFileMode(e) ==
  IF "LOG_FILE_PERMISSIONS" \notin DOMAIN e
    THEN [mode |-> Num(DEFAULT_FILE_MODE), warn |-> <<>>]
    ELSE validateNumericMode(parseInt(e["LOG_FILE_PERMISSIONS"], 8))

(***************************************************************************)
(* process.env and getEnvConfig.                                           *)
(***************************************************************************)
\* process.env.K is set to a non-empty string (K || default takes K);
\* the first for strings kept as TLA+ strings, the second for character
\* sequences
TruthyStr(e, k) == k \in DOMAIN e /\ e[k] # ""
TruthySeq(e, k) == k \in DOMAIN e /\ e[k] # <<>>

DEFAULT_LOG_FILE_PATH == <<".", "/", "l", "o", "g", "s", "/", "a", "p", "p", ".", "l", "o", "g">>
FALLBACK_TO_STDOUT_MESSAGE == "Falling back to stdout"
Localhost == <<"l", "o", "c", "a", "l", "h", "o", "s", "t">>

\* getEnvConfig().  A string field that is undefined in the source is the
\* empty string here: every use of these fields is a truthiness test
\* (X || default, !size), which undefined and '' answer alike.
getEnvConfig(e) ==
  [ NODE_ENV |-> IF TruthyStr(e, "NODE_ENV") THEN e["NODE_ENV"] ELSE "development",
    LOG_LEVEL |-> IF TruthyStr(e, "LOG_LEVEL") THEN e["LOG_LEVEL"] ELSE "",
    LOG_OUTPUT |-> IF TruthyStr(e, "LOG_OUTPUT") THEN e["LOG_OUTPUT"] ELSE "",
    LOG_FILE_PATH |-> IF TruthySeq(e, "LOG_FILE_PATH") THEN e["LOG_FILE_PATH"] ELSE <<>>,
    LOG_FILE_MAX_SIZE |->
      IF TruthySeq(e, "LOG_FILE_MAX_SIZE") THEN e["LOG_FILE_MAX_SIZE"] ELSE <<>>,
    LOG_FILE_MAX_FILES |->
      IF TruthySeq(e, "LOG_FILE_MAX_FILES")
        THEN parseInt(e["LOG_FILE_MAX_FILES"], 10) ELSE Undefined,
    LOG_SYSLOG_HOST |->
      IF TruthySeq(e, "LOG_SYSLOG_HOST") THEN e["LOG_SYSLOG_HOST"] ELSE <<>>,
    LOG_SYSLOG_PORT |->
      IF TruthySeq(e, "LOG_SYSLOG_PORT")
        THEN parseInt(e["LOG_SYSLOG_PORT"], 10) ELSE Undefined,
    LOG_SYSLOG_PROTOCOL |->
      IF TruthyStr(e, "LOG_SYSLOG_PROTOCOL") THEN e["LOG_SYSLOG_PROTOCOL"] ELSE "",
    APP_NAME |-> IF TruthyStr(e, "APP_NAME") THEN e["APP_NAME"] ELSE "agentic-node-ts-starter" ]

\* getEffectiveLogOutput(): envConfig.LOG_OUTPUT || 'stdout'
\* getEffectiveLogOutput with stderr as the default
getEffectiveLogOutputStderr(e) ==
  IF TruthyStr(e, "LOG_OUTPUT") THEN e["LOG_OUTPUT"] ELSE "stderr"

getEffectiveLogOutput(e) ==
  IF TruthyStr(e, "LOG_OUTPUT") THEN e["LOG_OUTPUT"] ELSE "stdout"

(***************************************************************************)
(* parseSizeToBytes: /^(\d+(?:\.\d+)?)\s*([KMGT]?)B?$/i, then              *)
(* floor(value * multiplier).                                              *)
(***************************************************************************)
RECURSIVE PrefixLen(_, _)
PrefixLen(s, S) ==
  IF Len(s) > 0 /\ Head(s) \in S THEN 1 + PrefixLen(Tail(s), S) ELSE 0

Drop(s, n) == SubSeq(s, n + 1, Len(s))

RECURSIVE Pow10(_)
Pow10(k) == IF k = 0 THEN 1 ELSE 10 * Pow10(k - 1)

\* a number of bytes, mib * 1024^2 + v with v below 1024^2 (the sizes reach
\* beyond the integers of the model checker; JavaScript holds them exactly)
Bytes(mib, v) == [t |-> "number", mib |-> mib, v |-> v]

\* the multipliers 1, 1024, 1024^2, 1024^3 and 1024^4, as exponents of 1024
Multiplier(unit) ==
  CASE unit \in {"K", "k"} -> 1
    [] unit \in {"M", "m"} -> 2
    [] unit \in {"G", "g"} -> 3
    [] unit \in {"T", "t"} -> 4
    [] OTHER -> 0

UnitLetters == {"K", "M", "G", "T", "k", "m", "g", "t"}

\* the rest of the match after the number: \s*([KMGT]?)B?$ ; the
\* multiplier of the unit, or -1 when the rest does not match
UnitSuffix(rest) ==
  IF rest = <<>> THEN 0
  ELSE IF rest[1] \in UnitLetters
    THEN IF Len(rest) = 1 \/ (Len(rest) = 2 /\ rest[2] \in {"B", "b"})
           THEN Multiplier(rest[1]) ELSE -1
  ELSE IF Len(rest) = 1 /\ rest[1] \in {"B", "b"} THEN 0
  ELSE -1

\* floor((whole + frac / 10^n2) * 1024^mult), Undefined when mult is -1;
\* from 1024^2 on the mebibytes and the bytes below one are divided apart
ScaledSize(whole, frac, n2, mult) ==
  IF mult < 0 THEN Undefined
  ELSE IF mult < 2
    THEN Bytes((((whole * Pow10(n2) + frac) * 1024^mult) \div Pow10(n2)) \div (1024 * 1024),
               (((whole * Pow10(n2) + frac) * 1024^mult) \div Pow10(n2)) % (1024 * 1024))
  ELSE Bytes(((whole * Pow10(n2) + frac) * 1024^(mult - 2)) \div Pow10(n2),
             ((((whole * Pow10(n2) + frac) * 1024^(mult - 2)) % Pow10(n2)) * 1024 * 1024)
               \div Pow10(n2))

\* size starts with n1 >= 1 digits; rest is what follows them
SizeAfterDigits(whole, rest) ==
  IF Len(rest) >= 2 /\ rest[1] = "." /\ rest[2] \in Digits
    THEN ScaledSize(whole,
                    parseInt(SubSeq(rest, 2, 1 + PrefixLen(Tail(rest), Digits)), 10).v,
                    PrefixLen(Tail(rest), Digits),
                    UnitSuffix(SkipWhitespace(Drop(rest, 1 + PrefixLen(Tail(rest), Digits)))))
    ELSE ScaledSize(whole, 0, 0, UnitSuffix(SkipWhitespace(rest)))

parseSizeToBytes(size) ==
  IF size = <<>> \/ PrefixLen(size, Digits) = 0 THEN Undefined
  ELSE SizeAfterDigits(parseInt(SubSeq(size, 1, PrefixLen(size, Digits)), 10).v,
                       Drop(size, PrefixLen(size, Digits)))

\* JavaScript truthiness of a number | undefined
TruthyNum(n) == n.t = "number" /\ n.v # 0

(***************************************************************************)
(* Transport descriptors.                                                  *)
(***************************************************************************)
NoTransport == [target |-> "none", options |-> [none |-> TRUE]]

\* getFileTransportConfig() given getEnvConfig() and the parsed size
fileTransportFor(cfg, maxSize) ==
  IF maxSize.t = "number" /\ (maxSize.mib # 0 \/ maxSize.v # 0)
    THEN [ target |-> "pino-roll",
           options |-> [ file |-> IF cfg.LOG_FILE_PATH # <<>> THEN cfg.LOG_FILE_PATH
                                  ELSE DEFAULT_LOG_FILE_PATH,
                         size |-> IF cfg.LOG_FILE_MAX_SIZE # <<>>
                                    THEN cfg.LOG_FILE_MAX_SIZE ELSE <<"1", "0", "M">>,
                         hasLimit |-> cfg.LOG_FILE_MAX_FILES.t # "undefined",
                         count |-> cfg.LOG_FILE_MAX_FILES ] ]
    ELSE [ target |-> "pino/file",
           options |-> [ destination |-> IF cfg.LOG_FILE_PATH # <<>> THEN cfg.LOG_FILE_PATH
                                         ELSE DEFAULT_LOG_FILE_PATH,
                         mkdir |-> TRUE ] ]

getFileTransportConfig(cfg) == fileTransportFor(cfg, parseSizeToBytes(cfg.LOG_FILE_MAX_SIZE))

getSyslogTransportConfig(cfg) ==
  [ target |-> "pino-syslog",
    options |-> [ host |-> IF cfg.LOG_SYSLOG_HOST # <<>> THEN cfg.LOG_SYSLOG_HOST
                           ELSE Localhost,
                  port |-> IF TruthyNum(cfg.LOG_SYSLOG_PORT) THEN cfg.LOG_SYSLOG_PORT
                           ELSE Num(514),
                  protocol |-> IF cfg.LOG_SYSLOG_PROTOCOL # "" THEN cfg.LOG_SYSLOG_PROTOCOL
                               ELSE "udp",
                  app |-> cfg.APP_NAME ] ]

(***************************************************************************)
(* Logger configurations (pino LoggerOptions).                             *)
(***************************************************************************)
\* each path as its segments: 'password' is <<"password">>, '*.password' is
\* <<"*", "password">>
REDACTED_PATHS ==
  << <<"password">>, <<"token">>, <<"secret">>, <<"authorization">>,
     <<"api_key">>, <<"apiKey">>,
     <<"*", "password">>, <<"*", "token">>, <<"*", "secret">>, <<"*", "authorization">>,
     <<"*", "api_key">>, <<"*", "apiKey">> >>

\* pino's redaction (fast-redact): the value at key path keys of a logged
\* object is censored when some path has as many segments as keys and each
\* segment is the key at its depth or the wildcard, which stands for any
\* one key
IsRedacted(redact, keys) ==
  \E i \in 1..Len(redact.paths) :
    /\ Len(redact.paths[i]) = Len(keys)
    /\ \A d \in 1..Len(keys) : redact.paths[i][d] \in {"*", keys[d]}

\* createTestConfig with the level silent whatever LOG_LEVEL is
createTestConfigSilent(baseConfig, e) == [baseConfig EXCEPT !.level = "silent"]

createBaseConfig(logLevel) ==
  [ level |-> logLevel,
    timestamp |-> "isoTime",
    redact |-> [paths |-> REDACTED_PATHS, remove |-> TRUE],
    mixin |-> "none",
    formatters |-> "none",
    transport |-> NoTransport ]

createProductionConfig(baseConfig) ==
  [baseConfig EXCEPT !.mixin = "correlationId", !.formatters = "level"]

\* level: process.env.LOG_LEVEL || 'silent'
createTestConfig(baseConfig, e) ==
  [baseConfig EXCEPT !.level = IF TruthyStr(e, "LOG_LEVEL") THEN e["LOG_LEVEL"] ELSE "silent"]

\* createNullConfig leaving the level as it is
createNullConfigSameLevel(baseConfig) == baseConfig

createNullConfig(baseConfig) == [baseConfig EXCEPT !.level = "silent"]

(***************************************************************************)
(* The configuration factory.  A factory function returns a record         *)
(*   config  the LoggerOptions returned (meaningless when raised),         *)
(*   raised  the error that propagates to the caller, or "none",           *)
(*   diags   the records written to the fallback logger,                   *)
(*   warns   the lines written to process.stderr,                          *)
(*   checks  the validators that ran,                                      *)
(*   mkdirs  the mkdirSync calls made.                                     *)
(***************************************************************************)
NoError == "none"

Diag(msg, context, error) == [msg |-> msg, context |-> context, error |-> error]

\* logValidationError(context, error): two records on the fallback logger
logValidationError(context, error) ==
  << Diag("Invalid " \o context, context, error),
     Diag(FALLBACK_TO_STDOUT_MESSAGE, "", "") >>

\* the last position of path that is a "/" followed later by another
\* character, from position 2 on; 0 when there is none
LastSeparator(path) ==
  IF \E i \in 2..Len(path) : path[i] = "/" /\ \E j \in (i + 1)..Len(path) : path[j] # "/"
    THEN CHOOSE i \in 2..Len(path) :
           /\ path[i] = "/" /\ \E j \in (i + 1)..Len(path) : path[j] # "/"
           /\ \A k \in (i + 1)..Len(path) :
                ~(path[k] = "/" /\ \E j \in (k + 1)..Len(path) : path[j] # "/")
    ELSE 0

dirnameAt(path, end) ==
  IF end = 0 THEN (IF path[1] = "/" THEN <<"/">> ELSE <<".">>)
  ELSE IF path[1] = "/" /\ end = 2 THEN <<"/", "/">>
  ELSE SubSeq(path, 1, end - 1)

\* node:path (posix) dirname
dirname(path) == IF Len(path) = 0 THEN <<".">> ELSE dirnameAt(path, LastSeparator(path))

\* 0o750
LOG_DIRECTORY_MODE == 488

\* ensureLogDirectory making the directory with the mode validateFileMode
\* returns
ensureLogDirectoryWithMode(logPath, e, mkdirOk) ==
  [ ok |-> mkdirOk,
    warns |-> validateFileMode(e).warn,
    mkdirs |-> << [dir |-> dirname(logPath), recursive |-> TRUE,
                   mode |-> validateFileMode(e).mode.v] >>,
    diags |-> IF mkdirOk THEN <<>>
              ELSE << Diag("Failed to create log directory", "", "mkdir failed"),
                      Diag(FALLBACK_TO_STDOUT_MESSAGE, "", "") >> ]

\* ensureLogDirectory(logPath); mkdirOk tells whether mkdirSync succeeds.
\* The value validateFileMode returns is discarded.
ensureLogDirectory(logPath, e, mkdirOk) ==
  [ ok |-> mkdirOk,
    warns |-> validateFileMode(e).warn,
    mkdirs |-> << [dir |-> dirname(logPath), recursive |-> TRUE, mode |-> LOG_DIRECTORY_MODE] >>,
    diags |-> IF mkdirOk THEN <<>>
              ELSE << Diag("Failed to create log directory", "", "mkdir failed"),
                      Diag(FALLBACK_TO_STDOUT_MESSAGE, "", "") >> ]

\* createFileConfig after validateLogPath passed; dir is what
\* ensureLogDirectory did
fileConfigInDirectory(fallback, cfg, dir) ==
  IF ~dir.ok
    THEN [ config |-> fallback, raised |-> NoError,
           diags |-> dir.diags, warns |-> dir.warns,
           checks |-> <<"validateLogPath", "validateFileMode">>, mkdirs |-> dir.mkdirs ]
    ELSE [ config |-> [fallback EXCEPT !.transport = getFileTransportConfig(cfg)],
           raised |-> NoError,
           diags |-> <<>>, warns |-> dir.warns,
           checks |-> <<"validateLogPath", "validateFileMode">>, mkdirs |-> dir.mkdirs ]

\* createFileConfig without its try/catch: the error validateLogPath throws
\* reaches the caller
fileConfigUncaught(fallback, cfg, e, mkdirOk, logPath, v) ==
  IF v # Ok
    THEN [ config |-> fallback, raised |-> v, diags |-> <<>>,
           warns |-> <<>>, checks |-> <<"validateLogPath">>, mkdirs |-> <<>> ]
    ELSE fileConfigInDirectory(fallback, cfg, ensureLogDirectory(logPath, e, mkdirOk))

\* createFileConfig; v is what validateLogPath(logPath) answered: on an
\* error the catch logs it and returns the fallback
fileConfigValidated(fallback, cfg, e, mkdirOk, logPath, v) ==
  IF v # Ok
    THEN [ config |-> fallback, raised |-> NoError,
           diags |-> logValidationError("log file path", v),
           warns |-> <<>>, checks |-> <<"validateLogPath">>, mkdirs |-> <<>> ]
    ELSE fileConfigInDirectory(fallback, cfg, ensureLogDirectory(logPath, e, mkdirOk))

fileConfigAt(fallback, cfg, e, mkdirOk, logPath) ==
  fileConfigValidated(fallback, cfg, e, mkdirOk, logPath, validateLogPath(logPath))

\* createFileConfig(baseConfig, productionConfig, isProduction); fallback is
\* isProduction ? productionConfig : baseConfig
createFileConfig(fallback, cfg, e, mkdirOk) ==
  fileConfigAt(fallback, cfg, e, mkdirOk,
               IF cfg.LOG_FILE_PATH # <<>> THEN cfg.LOG_FILE_PATH ELSE DEFAULT_LOG_FILE_PATH)

\* createSyslogConfig returning the syslog configuration whatever the
\* validators answered
syslogConfigUnchecked(fallback, cfg, h, p) ==
  [ config |-> [fallback EXCEPT !.timestamp = "epochTime",
                                !.transport = getSyslogTransportConfig(cfg)],
    raised |-> NoError,
    diags |-> IF h.err # Ok THEN logValidationError("syslog configuration", h.err)
              ELSE IF p.err # Ok THEN logValidationError("syslog configuration", p.err)
              ELSE <<>>,
    warns |-> h.warn \o p.warn,
    checks |-> <<"validateSyslogHost", "validateSyslogPort">>, mkdirs |-> <<>> ]

\* createSyslogConfig; h and p are what validateSyslogHost and
\* validateSyslogPort answered (the second runs only when the first passed):
\* on an error the catch logs it and returns the fallback
syslogConfigValidated(fallback, cfg, h, p) ==
  IF h.err # Ok
    THEN [ config |-> fallback, raised |-> NoError,
           diags |-> logValidationError("syslog configuration", h.err),
           warns |-> h.warn, checks |-> <<"validateSyslogHost">>, mkdirs |-> <<>> ]
  ELSE IF p.err # Ok
    THEN [ config |-> fallback, raised |-> NoError,
           diags |-> logValidationError("syslog configuration", p.err),
           warns |-> h.warn \o p.warn,
           checks |-> <<"validateSyslogHost", "validateSyslogPort">>, mkdirs |-> <<>> ]
  ELSE [ config |-> [fallback EXCEPT !.timestamp = "epochTime",
                                     !.transport = getSyslogTransportConfig(cfg)],
         raised |-> NoError,
         diags |-> <<>>, warns |-> h.warn \o p.warn,
         checks |-> <<"validateSyslogHost", "validateSyslogPort">>, mkdirs |-> <<>> ]

\* createSyslogConfig(baseConfig, productionConfig, isProduction)
createSyslogConfig(fallback, cfg, e) ==
  syslogConfigValidated(
    fallback, cfg,
    validateSyslogHost(IF cfg.LOG_SYSLOG_HOST # <<>> THEN cfg.LOG_SYSLOG_HOST ELSE Localhost, e),
    validateSyslogPort(cfg.LOG_SYSLOG_PORT, e))

PrettyTransport ==
  [ target |-> "pino-pretty",
    options |-> [ colorize |-> TRUE, ignore |-> "pid,hostname",
                  translateTime |-> "HH:MM:ss.l", singleLine |-> FALSE ] ]

\* createStdoutConfig returning the production configuration whenever it
\* does not return the pretty one
createStdoutConfigElse(baseConfig, productionConfig, isDevelopment, isProduction, isTest) ==
  IF isDevelopment /\ ~isTest
    THEN [baseConfig EXCEPT !.transport = PrettyTransport]
    ELSE productionConfig

createStdoutConfig(baseConfig, productionConfig, isDevelopment, isProduction, isTest) ==
  IF isDevelopment /\ ~isTest
    THEN [baseConfig EXCEPT !.transport = PrettyTransport]
    ELSE IF isProduction THEN productionConfig ELSE baseConfig

\* a configuration returned with no validation, no diagnostic, no mkdir
Plain(config) ==
  [ config |-> config, raised |-> NoError, diags |-> <<>>, warns |-> <<>>,
    checks |-> <<>>, mkdirs |-> <<>> ]

\* getLoggerConfig looking at the runtime mode only after the file mode
configForFileFirst(effectiveOutput, baseConfig, cfg, e, mkdirOk) ==
  IF effectiveOutput = "file" THEN createFileConfig(baseConfig, cfg, e, mkdirOk)
  ELSE Plain(createTestConfig(baseConfig, e))

\* getLoggerConfig once NODE_ENV, the level and the effective output are
\* known: the dispatch on the runtime mode and the output mode
configFor(effectiveOutput, baseConfig, cfg, e, mkdirOk) ==
  IF cfg.NODE_ENV = "test" THEN Plain(createTestConfig(baseConfig, e))
  ELSE IF effectiveOutput = "null" THEN Plain(createNullConfig(baseConfig))
  ELSE IF effectiveOutput = "file"
    THEN createFileConfig(IF cfg.NODE_ENV = "production"
                            THEN createProductionConfig(baseConfig) ELSE baseConfig,
                          cfg, e, mkdirOk)
  ELSE IF effectiveOutput = "syslog"
    THEN createSyslogConfig(IF cfg.NODE_ENV = "production"
                              THEN createProductionConfig(baseConfig) ELSE baseConfig,
                            cfg, e)
  ELSE IF effectiveOutput = "stderr"
    THEN Plain(IF cfg.NODE_ENV = "production"
                 THEN createProductionConfig(baseConfig) ELSE baseConfig)
  ELSE Plain(createStdoutConfig(baseConfig, createProductionConfig(baseConfig),
                                cfg.NODE_ENV = "development",
                                cfg.NODE_ENV = "production",
                                cfg.NODE_ENV = "test"))

\* LOG_LEVEL || (env.isProduction ? 'info' : 'debug')
logLevelOf(cfg) ==
  IF cfg.LOG_LEVEL # "" THEN cfg.LOG_LEVEL
  ELSE IF cfg.NODE_ENV = "production" THEN "info" ELSE "debug"

getLoggerConfigIn(outputMode, cfg, e, mkdirOk) ==
  configFor(IF outputMode # "" THEN outputMode ELSE getEffectiveLogOutput(e),
            createBaseConfig(logLevelOf(cfg)), cfg, e, mkdirOk)

\* getLoggerConfig(outputMode); outputMode "" stands for an absent argument
getLoggerConfig(outputMode, e, mkdirOk) ==
  getLoggerConfigIn(outputMode, getEnvConfig(e), e, mkdirOk)

\* getDestination without the branch for stderr
getDestinationUndefined(outputMode, e) == "none"

\* getDestination(outputMode): the stream handed to pino, "none" for undefined
getDestination(outputMode, e) ==
  IF (IF outputMode # "" THEN outputMode ELSE getEffectiveLogOutput(e)) = "stderr"
    THEN "fd2" ELSE "none"

(***************************************************************************)
(* pino loggers.                                                           *)
(*                                                                         *)
(* A pino instance keeps two kinds of state.  Its own enumerable           *)
(* string-keyed properties are the level methods (trace ... fatal, each    *)
(* either a no-op or the logging function, as the level decided when the   *)
(* instance was built) and, added by wrapLoggerWithContext, withContext,   *)
(* which closes over the instance it was made for.  Everything a write     *)
(* uses (the stream, the timestamp function, the mixin, the formatters,    *)
(* the redaction, the level value) is kept under symbol keys, which        *)
(* Object.keys does not enumerate.  A level method reads that state from   *)
(* the object it is called on.                                             *)
(***************************************************************************)
PinoLevels == {"trace", "debug", "info", "warn", "error", "fatal", "silent"}

LevelValue(l) ==
  CASE l = "trace" -> 10 [] l = "debug" -> 20 [] l = "info" -> 30
    [] l = "warn" -> 40 [] l = "error" -> 50 [] l = "fatal" -> 60
    [] OTHER -> 1000

\* the id of the logger created at module load (fallbackLogger is object 0)
StartupLoggerId == 1

NoStream == [kind |-> "none", target |-> "none", owner |-> 0]

\* the stream pino(config, destination) writes to; id names the instance
\* that owns a transport
StreamOf(config, destination, id) ==
  IF config.transport.target # "none"
    THEN [kind |-> "transport", target |-> config.transport.target, owner |-> id]
  ELSE IF destination = "fd2" THEN [kind |-> "stderr", target |-> "none", owner |-> 0]
  ELSE [kind |-> "stdout", target |-> "none", owner |-> 0]

\* a logger instance: own string-keyed properties and symbol-keyed state.
\* withContext closes over baseLogger, the instance it was made for: its id
\* and its symbol-keyed state, which nothing changes after construction
Instance(id, level, config, stream) ==
  [ id |-> id,
    own |-> [ methods |-> level, withContext |-> id,
              baseLogger |-> [config |-> config, stream |-> stream] ],
    sym |-> [config |-> config, stream |-> stream] ]

NoInstance == Instance(0, "silent", createBaseConfig("silent"), NoStream)

\* pino(config, destination) as instance number id; it throws on a level
\* that is no level name
pino(config, destination, id) ==
  IF config.level \notin PinoLevels
    THEN [ raised |-> "default level must be included in custom levels",
           instance |-> NoInstance ]
    ELSE [ raised |-> NoError,
           instance |-> Instance(id, config.level, config,
                                 StreamOf(config, destination, id)) ]

\* createLogger once getLoggerConfig returned f and pino answered built
createLoggerBuilt(f, built) ==
  [raised |-> built.raised, factory |-> f, instance |-> built.instance]

createLoggerFrom(f, destination, id) ==
  IF f.raised # NoError
    THEN [raised |-> f.raised, factory |-> f, instance |-> NoInstance]
    ELSE createLoggerBuilt(f, pino(f.config, destination, id))

\* createLogger(outputMode) as instance number id: the factory's record and
\* what pino made of it
createLogger(outputMode, e, mkdirOk, id) ==
  createLoggerFrom(getLoggerConfig(outputMode, e, mkdirOk),
                   getDestination(outputMode, e), id)

\* a call of inst.<level>(...): whether a record is written, and with what
LogVia(inst, level) ==
  IF LevelValue(level) >= LevelValue(inst.own.methods) /\ level # "silent"
    THEN [ written |-> TRUE,
           stream |-> inst.sym.stream,
           timestamp |-> inst.sym.config.timestamp,
           mixin |-> inst.sym.config.mixin,
           redact |-> inst.sym.config.redact ]
    ELSE [ written |-> FALSE,
           stream |-> NoStream,
           timestamp |-> "none", mixin |-> "none",
           redact |-> [paths |-> <<>>, remove |-> FALSE] ]

\* the same call on a logger built from config on stream: what the
\* configuration asks for
LogPer(config, stream, level) == LogVia(Instance(0, config.level, config, stream), level)

\* a switch that rebinds the exported name to the new logger
ReplaceLogger(handle, newLogger) == newLogger

\* Object.setPrototypeOf(logger, ...) and the copy of Object.keys(newLogger)
\* onto the exported logger: the own string-keyed properties are replaced,
\* the prototype (the same for every pino instance) and the symbol-keyed
\* state are not
CopyOntoLogger(handle, newLogger) == [handle EXCEPT !.own = newLogger.own]

(***************************************************************************)
(* The module state of logger.ts and the operations on it.                 *)
(***************************************************************************)
VARIABLES
  env,                   \* process.env
  logger,                \* the exported logger object
  currentLoggerInstance, \* id of the object the module variable refers to
  currentOutputMode,     \* the module variable
  currentFileStream,     \* id of the stream it refers to, 0 for null
  builds,                \* loggers built by switchLogOutput so far
  streams,               \* transport streams opened so far, with their end() count
  lastFactory,           \* the last call of getLoggerConfig and its result
  lastCall,              \* the last call of switchLogOutput
  requests,              \* logical requests: "idle", "started", "spanning"
  lastLog,               \* the last log call made by a request
  probe                  \* the last call of another exported function, and its result

vars == << env, logger, currentLoggerInstance, currentOutputMode, currentFileStream,
           builds, streams, lastFactory, lastCall, requests, lastLog, probe >>

Modes == {"stdout", "stderr", "file", "syslog", "null"}

\* arguments of switchLogOutput: its parameter is any string
SwitchArgs == Modes \cup {"bogus", ""}

\* severities the requests log at
LogLevels == {"debug", "error"}

NoBuilt == [config |-> createBaseConfig("silent"), stream |-> NoStream]

NoLog ==
  [ made |-> FALSE, req |-> 0, spanning |-> FALSE, level |-> "none",
    outcome |-> LogVia(NoInstance, "silent") ]

NoCall ==
  [ kind |-> "none", mode |-> "", previousMode |-> "", noop |-> FALSE,
    threw |-> FALSE, built |-> NoBuilt, ended |-> 0,
    note |-> LogVia(NoInstance, "silent") ]

NoProbe == [fn |-> "none"]

PathEtcPasswd == <<"/", "e", "t", "c", "/", "p", "a", "s", "s", "w", "d">>
Port70000 == <<"7", "0", "0", "0", "0">>

\* the ways of leaving variable k unset or setting it to one of vals
Opt(k, vals) == {<<>>} \cup {k :> v : v \in vals}

\* file and syslog settings that fail validation
BadTransportSettings == ("LOG_FILE_PATH" :> PathEtcPasswd) @@ ("LOG_SYSLOG_PORT" :> Port70000)

\* environments the process is started in: the file and syslog settings are
\* all unset (the defaults are valid) or all invalid
SwitchEnvs ==
  { a @@ b @@ c :
      a \in Opt("NODE_ENV", {"production", "test"}),
      b \in Opt("LOG_OUTPUT", {"bogus"}),
      c \in {<<>>, BadTransportSettings} }

getLoggerOutputMode ==
  IF currentOutputMode # "" THEN currentOutputMode ELSE getEffectiveLogOutput(env)

\* the transport stream a new logger opens, if any
Opened(stream) ==
  IF stream.kind = "transport"
    THEN << [owner |-> stream.owner, target |-> stream.target, ended |-> 0] >>
    ELSE << >>

\* module load in environment e, made being what createLogger() returned
StartupWith(e, made) ==
  /\ made.raised = NoError
  /\ env = e
  /\ currentOutputMode = getEffectiveLogOutput(e)
  /\ logger = made.instance
  /\ currentLoggerInstance = made.instance.id
  /\ currentFileStream = 0
  /\ builds = 0
  /\ streams = Opened(made.instance.sym.stream)
  /\ lastFactory = [mode |-> "", result |-> made.factory]
  /\ lastCall = NoCall
  /\ requests = [r \in 1..MaxRequests |-> "idle"]
  /\ lastLog = NoLog
  /\ probe = NoProbe

Startup(e, mkdirOk) == StartupWith(e, createLogger("", e, mkdirOk, StartupLoggerId))

Init == \E e \in SwitchEnvs, mkdirOk \in BOOLEAN : Startup(e, mkdirOk)

\* cleanupPreviousOutput(previousMode): the streams and currentFileStream
\* afterwards, and the number of end() calls made
cleanupPreviousOutput(previousMode, fileStream, strs) ==
  IF previousMode = "file" /\ fileStream # 0
    THEN [ streams |-> [i \in DOMAIN strs |->
                          IF strs[i].owner = fileStream
                            THEN [strs[i] EXCEPT !.ended = @ + 1] ELSE strs[i]],
           currentFileStream |-> 0, ended |-> 1 ]
    ELSE [ streams |-> strs, currentFileStream |-> fileStream, ended |-> 0 ]

\* switchLogOutput(outputMode) when outputMode is the current mode
SwitchNoop(outputMode) ==
  /\ currentOutputMode = outputMode
  /\ lastCall' = [ kind |-> "switch", mode |-> outputMode,
                   previousMode |-> currentOutputMode, noop |-> TRUE,
                   threw |-> FALSE, built |-> NoBuilt, ended |-> 0,
                   note |-> LogVia(logger, "debug") ]
  /\ UNCHANGED << probe, env, logger, currentLoggerInstance, currentOutputMode,
                  currentFileStream, builds, streams, lastFactory, requests, lastLog >>

\* the rest of switchLogOutput: cleaned is what cleanupPreviousOutput did,
\* made what createLogger(outputMode) returned, handle the exported logger
\* after the copy (untouched when createLogger threw)
SwitchApply(outputMode, previousMode, cleaned, made, threw, handle) ==
  /\ currentOutputMode' = outputMode
  /\ currentFileStream' = cleaned.currentFileStream
  /\ lastFactory' = [mode |-> outputMode, result |-> made.factory]
  /\ logger' = handle
  /\ builds' = IF threw THEN builds ELSE builds + 1
  /\ streams' = IF threw THEN cleaned.streams
                ELSE cleaned.streams \o Opened(made.instance.sym.stream)
  /\ lastCall' = [ kind |-> "switch", mode |-> outputMode,
                   previousMode |-> previousMode, noop |-> FALSE, threw |-> threw,
                   built |-> IF threw THEN NoBuilt
                             ELSE [ config |-> made.instance.sym.config,
                                    stream |-> made.instance.sym.stream ],
                   ended |-> cleaned.ended,
                   note |-> IF threw THEN NoCall.note ELSE LogVia(handle, "info") ]
  /\ requests' = [r \in DOMAIN requests |->
                    IF requests[r] = "started" THEN "spanning" ELSE requests[r]]
  /\ lastLog' = NoLog
  /\ UNCHANGED << probe, env, currentLoggerInstance >>

SwitchCopy(outputMode, previousMode, cleaned, made) ==
  SwitchApply(outputMode, previousMode, cleaned, made, made.raised # NoError,
              IF made.raised # NoError THEN logger
              ELSE CopyOntoLogger(logger, made.instance))

\* switchLogOutput without its early return for the current mode
SwitchAlways(outputMode, mkdirOk) ==
  /\ builds < MaxBuilds
  /\ SwitchCopy(outputMode, currentOutputMode,
                cleanupPreviousOutput(currentOutputMode, currentFileStream, streams),
                createLogger(outputMode, env, mkdirOk, StartupLoggerId + builds + 1))

\* switchLogOutput(outputMode) when outputMode differs from the current mode
SwitchChange(outputMode, mkdirOk) ==
  /\ currentOutputMode # outputMode
  /\ builds < MaxBuilds
  /\ SwitchCopy(outputMode, currentOutputMode,
                cleanupPreviousOutput(currentOutputMode, currentFileStream, streams),
                createLogger(outputMode, env, mkdirOk, StartupLoggerId + builds + 1))

switchLogOutput(outputMode, mkdirOk) ==
  SwitchNoop(outputMode) \/ SwitchChange(outputMode, mkdirOk)

\* a logical request starts; its log call is still to come
StartRequest(r) ==
  /\ requests[r] = "idle"
  /\ requests' = [requests EXCEPT ![r] = "started"]
  /\ UNCHANGED << probe, env, logger, currentLoggerInstance, currentOutputMode,
                  currentFileStream, builds, streams, lastFactory, lastCall, lastLog >>

\* request r calls logger.<level>(...) on the exported logger
LogCall(r, level) ==
  /\ requests[r] # "idle"
  /\ lastLog' = [ made |-> TRUE, req |-> r, spanning |-> requests[r] = "spanning",
                  level |-> level, outcome |-> LogVia(logger, level) ]
  /\ requests' = [requests EXCEPT ![r] = "idle"]
  /\ UNCHANGED << probe, env, logger, currentLoggerInstance, currentOutputMode,
                  currentFileStream, builds, streams, lastFactory, lastCall >>

Next ==
  \/ \E m \in SwitchArgs, mkdirOk \in BOOLEAN : switchLogOutput(m, mkdirOk)
  \/ \E r \in 1..MaxRequests : StartRequest(r)
  \/ \E r \in 1..MaxRequests, l \in LogLevels : LogCall(r, l)

Spec == Init /\ [][Next]_vars

(***************************************************************************)
(* The configuration factory on its own: the process is started in one of  *)
(* a wider set of environments and getLoggerConfig is called for every     *)
(* output mode, with directory creation succeeding or failing.             *)
(***************************************************************************)

FactoryEnvs ==
  { a @@ b @@ c @@ d @@ f @@ g @@ h :
      h \in Opt("LOG_LEVEL", {"warn"}),
      a \in Opt("NODE_ENV", {"production", "test", "development", "staging"}),
      b \in Opt("LOG_OUTPUT", {"file"}),
      c \in Opt("LOG_FILE_PATH", {PathEtcPasswd, <<"a", "/", ".", ".", "/", "b">>}),
      d \in Opt("LOG_SYSLOG_HOST", {<<"a", "_", "b">>, <<"1", ".", "2", ".", "3", ".", "4">>}),
      f \in Opt("LOG_SYSLOG_PORT", {Port70000, <<"x">>}),
      g \in Opt("LOG_FILE_PERMISSIONS", {<<"7", "7", "7">>, <<"9">>}) }

FactoryInit == \E e \in FactoryEnvs, mkdirOk \in BOOLEAN : Startup(e, mkdirOk)

\* a call getLoggerConfig(outputMode)
CallFactory(outputMode, mkdirOk) ==
  /\ lastFactory' = [mode |-> outputMode, result |-> getLoggerConfig(outputMode, env, mkdirOk)]
  /\ UNCHANGED << probe, env, logger, currentLoggerInstance, currentOutputMode,
                  currentFileStream, builds, streams, lastCall, requests, lastLog >>

FactoryNext == \E m \in SwitchArgs, mkdirOk \in BOOLEAN : CallFactory(m, mkdirOk)

FactorySpec == FactoryInit /\ [][FactoryNext]_vars

(***************************************************************************)
(* The factory under size and count settings of the log file.  Each size   *)
(* comes with floor(value * multiplier), Undefined where the size is not   *)
(* of the form number, unit.                                               *)
(***************************************************************************)
Sizes ==
  { << <<"5", "0", "0">>, Bytes(0, 500) >>,                           \* "500"
    << <<"1", "0", "M">>, Bytes(10, 0) >>,                            \* "10M"
    << <<"1", "0", " ", "M", "B">>, Bytes(10, 0) >>,                  \* "10 MB"
    << <<"1", "0", "0", "k", "b">>, Bytes(0, 102400) >>,              \* "100kb"
    << <<"2", "0", "4", "8", "K">>, Bytes(2, 0) >>,                   \* "2048K"
    << <<"1", ".", "5", "K">>, Bytes(0, 1536) >>,                     \* "1.5K"
    << <<"1", ".", "1", "M">>, Bytes(1, 104857) >>,                   \* "1.1M"
    << <<"1", "G">>, Bytes(1024, 0) >>,                               \* "1G"
    << <<"1", ".", "5", "g">>, Bytes(1536, 0) >>,                     \* "1.5g"
    << <<"1", "T">>, Bytes(1048576, 0) >>,                            \* "1T"
    << <<"2", ".", "2", "5", "T", "B">>, Bytes(2359296, 0) >>,        \* "2.25TB"
    << <<"1", ".", "5">>, Bytes(0, 1) >>,                             \* "1.5"
    << <<"0", ".", "5">>, Bytes(0, 0) >>,                             \* "0.5"
    << <<"0">>, Bytes(0, 0) >>,                                       \* "0"
    << <<"1", "0", "X">>, Undefined >>,                               \* "10X"
    << <<"1", ".", "M">>, Undefined >>,                               \* "1.M"
    << <<"M">>, Undefined >>,                                         \* "M"
    << <<"1", "0", "M", "i", "B">>, Undefined >> }                    \* "10MiB"

RotationInit ==
  \E e \in { a @@ b @@ c :
               a \in Opt("NODE_ENV", {"production"}),
               b \in Opt("LOG_FILE_MAX_SIZE", { p[1] : p \in Sizes }),
               c \in Opt("LOG_FILE_MAX_FILES", {<<"5">>, <<"a", "b", "c">>}) } :
    Startup(e, TRUE)

RotationSpec == RotationInit /\ [][FactoryNext]_vars

(***************************************************************************)
(* The running process: besides switching and logging, the environment    *)
(* changes, the other exports of logger.ts are called and the health       *)
(* endpoint is requested.  process.uptime() is counted in hundredths of a  *)
(* second.  As in the validation calls, a behaviour observes one call of   *)
(* an export or of the endpoint in probe.                                  *)
(***************************************************************************)
ProcessEnvs ==
  { a @@ b :
      a \in Opt("NEXT_PUBLIC_APP_NAME", {"", "my-app"}),
      b \in Opt("npm_package_version", {"1.2.3"}) }

ProcessInit == \E e \in ProcessEnvs : Startup(e, TRUE)

\* process.env.LOG_OUTPUT = value, or delete process.env.LOG_OUTPUT for ""
SetLogOutput(value) ==
  /\ env' = IF value = "" THEN [k \in DOMAIN env \ {"LOG_OUTPUT"} |-> env[k]]
            ELSE ("LOG_OUTPUT" :> value) @@ env
  /\ env' # env
  /\ UNCHANGED << probe, logger, currentLoggerInstance, currentOutputMode, currentFileStream,
                  builds, streams, lastFactory, lastCall, requests, lastLog >>

\* a call getLoggerOutputMode()
CallGetLoggerOutputMode ==
  /\ probe = NoProbe
  /\ probe' = [fn |-> "getLoggerOutputMode", out |-> getLoggerOutputMode]
  /\ UNCHANGED << env, logger, currentLoggerInstance, currentOutputMode, currentFileStream,
                  builds, streams, lastFactory, lastCall, requests, lastLog >>

\* createChildLogger(name, context): logger.withContext(...), which is
\* baseLogger.child(...) for the instance the exported logger's withContext
\* was made for.  The child takes its level methods from the level of
\* baseLogger and inherits its symbol-keyed state; active is the
\* configuration the factory returned last.
createChildLogger ==
  /\ probe = NoProbe
  /\ probe' = [ fn |-> "createChildLogger", childOf |-> logger.own.withContext,
                child |-> [ own |-> [methods |-> logger.own.baseLogger.config.level],
                            sym |-> logger.own.baseLogger ],
                builds |-> builds,
                active |-> lastFactory.result.config ]
  /\ UNCHANGED << env, logger, currentLoggerInstance, currentOutputMode, currentFileStream,
                  builds, streams, lastFactory, lastCall, requests, lastLog >>

\* withTraceContext(logger, traceId, spanId): the logger itself without a
\* trace id (childOf 0), else logger.withContext(...)
withTraceContext(traceId) ==
  /\ probe = NoProbe
  /\ probe' = [ fn |-> "withTraceContext",
                childOf |-> IF traceId = "" THEN 0 ELSE logger.own.withContext ]
  /\ UNCHANGED << env, logger, currentLoggerInstance, currentOutputMode, currentFileStream,
                  builds, streams, lastFactory, lastCall, requests, lastLog >>

\* GET always answering for the default application name
GETDefaultName(uptime) ==
  /\ probe = NoProbe
  /\ probe' = [ fn |-> "GET", uptime |-> uptime, status |-> 200,
                body |-> [ status |-> "healthy", timestamp |-> "toISOString",
                           application |-> "agentic-nextjs-ts-starter",
                           version |-> IF TruthyStr(env, "npm_package_version")
                                         THEN env["npm_package_version"] ELSE "unknown",
                           uptime |-> uptime,
                           environment |-> IF TruthyStr(env, "NODE_ENV")
                                             THEN env["NODE_ENV"] ELSE "development" ] ]
  /\ UNCHANGED << env, logger, currentLoggerInstance, currentOutputMode, currentFileStream,
                  builds, streams, lastFactory, lastCall, requests, lastLog >>

\* GET of the health route while process.uptime() is uptime
GET(uptime) ==
  /\ probe = NoProbe
  /\ probe' = [ fn |-> "GET", uptime |-> uptime, status |-> 200,
                body |-> [ status |-> "healthy", timestamp |-> "toISOString",
                           application |-> IF TruthyStr(env, "NEXT_PUBLIC_APP_NAME")
                                             THEN env["NEXT_PUBLIC_APP_NAME"]
                                             ELSE "agentic-nextjs-ts-starter",
                           version |-> IF TruthyStr(env, "npm_package_version")
                                         THEN env["npm_package_version"] ELSE "unknown",
                           uptime |-> uptime,
                           environment |-> IF TruthyStr(env, "NODE_ENV")
                                             THEN env["NODE_ENV"] ELSE "development" ] ]
  /\ UNCHANGED << env, logger, currentLoggerInstance, currentOutputMode, currentFileStream,
                  builds, streams, lastFactory, lastCall, requests, lastLog >>

ProcessNext ==
  \/ \E m \in {"stderr", "file", ""} : switchLogOutput(m, TRUE)
  \/ \E value \in {"", "stderr"} : SetLogOutput(value)
  \/ CallGetLoggerOutputMode
  \/ createChildLogger
  \/ \E traceId \in {"", "4bf92f35"} : withTraceContext(traceId)
  \/ \E uptime \in {0, 12345} : GET(uptime)
  \/ \E r \in 1..MaxRequests : StartRequest(r)
  \/ \E r \in 1..MaxRequests, l \in LogLevels : LogCall(r, l)

ProcessSpec == ProcessInit /\ [][ProcessNext]_vars

(***************************************************************************)
(* Switching while LOG_LEVEL changes after module load: pino refuses a     *)
(* level that is no level name, so createLogger can raise inside           *)
(* switchLogOutput.                                                        *)
(***************************************************************************)
FailureInit == \E e \in Opt("NODE_ENV", {"production", "test"}) : Startup(e, TRUE)

\* process.env.LOG_LEVEL = value, or delete process.env.LOG_LEVEL for ""
SetLogLevel(value) ==
  /\ env' = IF value = "" THEN [k \in DOMAIN env \ {"LOG_LEVEL"} |-> env[k]]
            ELSE ("LOG_LEVEL" :> value) @@ env
  /\ env' # env
  /\ UNCHANGED << probe, logger, currentLoggerInstance, currentOutputMode, currentFileStream,
                  builds, streams, lastFactory, lastCall, requests, lastLog >>

FailureNext ==
  \/ \E m \in {"stderr", "file", "null"} : switchLogOutput(m, TRUE)
  \/ \E value \in {"", "verbose"} : SetLogLevel(value)
  \/ \E r \in 1..MaxRequests : StartRequest(r)
  \/ \E r \in 1..MaxRequests, l \in LogLevels : LogCall(r, l)

FailureSpec == FailureInit /\ [][FailureNext]_vars

(***************************************************************************)
(* Properties.                                                             *)
(***************************************************************************)
FileTargets == {"pino/file", "pino-roll"}

\* a switch that built and installed a new logger was the last call
Switched == lastCall.kind = "switch" /\ ~lastCall.noop /\ ~lastCall.threw

\* C1: after a switch to a different mode, every log call through the
\* exported logger, also one from a request that started before the switch,
\* is handled as the configuration built for the new mode asks: same
\* decision to write, same stream, timestamp, mixin and redaction.
C1_LogFollowsNewConfig ==
  (Switched /\ lastLog.made) =>
    lastLog.outcome = LogPer(lastCall.built.config, lastCall.built.stream, lastLog.level)

\* the stream of position i was opened by a file-mode logger that is no
\* longer the latest logger built
Superseded(i) ==
  streams[i].target \in FileTargets /\ streams[i].owner # StartupLoggerId + builds

\* C2: a file stream opened by a file-mode switch has been closed exactly
\* once as soon as that mode is superseded.
C2_FileStreamClosedOnce ==
  \A i \in DOMAIN streams : Superseded(i) => streams[i].ended = 1

\* C3: when the last switch asked for file or syslog and the descriptor
\* failed validation (a diagnostic was recorded), getLoggerOutputMode does
\* not report the rejected mode.
C3_RejectedModeNotActive ==
  (Switched /\ lastCall.mode \in {"file", "syslog"} /\ lastFactory.result.diags # <<>>) =>
    getLoggerOutputMode # lastCall.mode

\* C4: a call of switchLogOutput with the mode that is already current is a
\* no-op: the mode, the exported logger and the last configuration are
\* unchanged, no logger is built and no stream is opened or ended.
C4_SameModeIsNoop ==
  [][ \A m \in SwitchArgs, mkdirOk \in BOOLEAN :
        (m = currentOutputMode /\ switchLogOutput(m, mkdirOk)) =>
          /\ lastCall'.noop /\ lastCall'.ended = 0
          /\ UNCHANGED << logger, currentOutputMode, currentFileStream,
                          builds, streams, lastFactory >> ]_vars

C4_Witness ==
  lastCall.kind = "switch" /\ lastCall.noop /\ builds > 0 /\ lastCall.mode = "file"

\* C5: the exported logger is always the object created at startup.
C5_HandleIdentity ==
  logger.id = StartupLoggerId /\ currentLoggerInstance = logger.id

C5_Witness == builds = MaxBuilds /\ logger.own.withContext # StartupLoggerId

\* C6: getLoggerOutputMode returns the argument of the most recent
\* switchLogOutput call, and the environment's mode when there was none.
C6_ModeIsLastArgument ==
  IF lastCall.kind = "switch" THEN getLoggerOutputMode = lastCall.mode
  ELSE getLoggerOutputMode = getEffectiveLogOutput(env)

\* C7: the mode getLoggerOutputMode returns is always one of stdout,
\* stderr, file, syslog, null.
C7_ModeIsEnumerated == getLoggerOutputMode \in Modes

\* C8: switchLogOutput throws when its argument is none of the five modes,
\* and when it is file with LOG_FILE_PATH unset or syslog with
\* LOG_SYSLOG_HOST unset.
C8_ThrowsOnInvalid ==
  ( /\ lastCall.kind = "switch"
    /\ \/ lastCall.mode \notin Modes
       \/ lastCall.mode = "file" /\ "LOG_FILE_PATH" \notin DOMAIN env
       \/ lastCall.mode = "syslog" /\ "LOG_SYSLOG_HOST" \notin DOMAIN env ) =>
    lastCall.threw

\* the path of a file transport
TransportPath(transport) ==
  IF transport.target = "pino-roll" THEN transport.options.file
  ELSE transport.options.destination

\* a configuration pino can log with: a level pino knows, and a file or
\* syslog transport only with a path, host and port that pass validation
WorkingConfig(config) ==
  /\ config.level \in PinoLevels
  /\ config.transport.target \in FileTargets =>
       validateLogPath(TransportPath(config.transport)) = Ok
  /\ config.transport.target = "pino-syslog" =>
       /\ validateSyslogHost(config.transport.options.host, env).err = Ok
       /\ validateSyslogPort(config.transport.options.port, env).err = Ok

FactoryMode ==
  IF lastFactory.mode # "" THEN lastFactory.mode ELSE getEffectiveLogOutput(env)

\* the error of the file path in the environment, Ok when it is valid
FilePathError ==
  validateLogPath(IF TruthySeq(env, "LOG_FILE_PATH") THEN env["LOG_FILE_PATH"]
                  ELSE DEFAULT_LOG_FILE_PATH)

\* the error of the syslog host and port in the environment
SyslogHostError ==
  validateSyslogHost(IF TruthySeq(env, "LOG_SYSLOG_HOST") THEN env["LOG_SYSLOG_HOST"]
                     ELSE Localhost, env).err

SyslogPortError == validateSyslogPort(getEnvConfig(env).LOG_SYSLOG_PORT, env).err

\* the error the requested mode's descriptor fails validation with, Ok
\* when it passes or the mode is neither file nor syslog
DescriptorError ==
  IF FactoryMode = "file" THEN FilePathError
  ELSE IF FactoryMode = "syslog"
    THEN (IF SyslogHostError # Ok THEN SyslogHostError ELSE SyslogPortError)
  ELSE Ok

\* the configuration carries no file or syslog transport and a diagnostic
\* names the error
FellBackWith(error) ==
  /\ lastFactory.result.config.transport.target \notin FileTargets \cup {"pino-syslog"}
  /\ \E i \in DOMAIN lastFactory.result.diags : lastFactory.result.diags[i].error = error

\* C10 as stated: when the requested mode is file and the path fails
\* validation, or syslog and the host or port fails validation, the factory
\* returns a configuration with no file or syslog transport and records a
\* diagnostic naming the failure.
C10_FallbackAlways == DescriptorError # Ok => FellBackWith(DescriptorError)

\* C10 amended: the same when NODE_ENV is not test; with NODE_ENV test the
\* factory returns the test configuration, validates nothing and records
\* no diagnostic.
C10_FallbackOutsideTest ==
  /\ (DescriptorError # Ok /\ getEnvConfig(env).NODE_ENV # "test") =>
       FellBackWith(DescriptorError)
  /\ getEnvConfig(env).NODE_ENV = "test" =>
       /\ lastFactory.result.checks = <<>> /\ lastFactory.result.diags = <<>>
       /\ lastFactory.result.config.transport.target = "none"

C10_Witness ==
  /\ FactoryMode = "syslog" /\ SyslogHostError = Ok /\ SyslogPortError # Ok
  /\ getEnvConfig(env).NODE_ENV = "production"
  /\ FellBackWith(SyslogPortError)

(***************************************************************************)
(* The validators of logger-validation on their own: the process is        *)
(* started in production or in development and a validator is called on    *)
(* an input around a boundary of its checks.  The validators keep no       *)
(* state, so a behaviour makes one call.                                   *)
(***************************************************************************)
ValidationEnvs == Opt("NODE_ENV", {"production"})

ValidationInit == \E e \in ValidationEnvs : Startup(e, TRUE)

\* the string of n characters c
Rep(c, n) == [i \in 1..n |-> c]

\* the path dir/app.log, with sep as separator
FileUnder(dir, sep) == dir \o <<sep, "a", "p", "p", ".", "l", "o", "g">>

LogPaths ==
  { <<>>,
    <<"l", "o", "g", "s", "/", "a">>,                   \* logs/a
    <<"/", "t", "m", "p", "/", "a">>,                   \* /tmp/a
    <<"a", ".", ".", "b">>,                             \* a..b
    <<".", ".">>,                                       \* ..
    <<"a", "/", ".", ".", "/", "b">>,                   \* a/../b
    <<"a", "\\0", "b">>,                                \* a, NUL, b
    PathEtcPasswd,
    <<"/", "/", "e", "t", "c", "/", "a">>,              \* //etc/a
    <<"/", ".", "/", "e", "t", "c", "/", "a">>,         \* /./etc/a
    <<"/", "e", "t", "c", "e", "t", "e", "r", "a">>,    \* /etcetera
    <<"e", "t", "c", "/", "a">>,                        \* etc/a
    <<"/", "u", "s", "r", "2", "/", "a">>,              \* /usr2/a
    <<"/", "d", "e", "v", "l", "o", "g", "s", "/", "a">>, \* /devlogs/a
    DEFAULT_LOG_FILE_PATH, Rep("a", MAX_PATH_LENGTH), Rep("a", MAX_PATH_LENGTH + 1) }
  \cup { restrictedPaths[i] : i \in 1..Len(restrictedPaths) }
  \cup { FileUnder(restrictedPaths[i], "/") : i \in 1..Len(restrictedPaths) }
  \cup { FileUnder(restrictedPaths[i], "\\") : i \in 1..Len(restrictedPaths) }

\* a call validateLogPath(path)
CallValidateLogPath(path) ==
  /\ probe = NoProbe
  /\ probe' = [fn |-> "validateLogPath", path |-> path, out |-> validateLogPath(path)]
  /\ UNCHANGED << env, logger, currentLoggerInstance, currentOutputMode, currentFileStream,
                  builds, streams, lastFactory, lastCall, requests, lastLog >>

PortStrings ==
  { <<"5", "1", "4">>, <<"0">>, <<"-", "1">>, <<"x">>, <<"8", "0", "x">>,
    <<"5", "1", "4", ".", "9">>, <<" ", "8", "0">>, Port70000 }

\* ports given as numbers, and ports as getEnvConfig reads them from
\* LOG_SYSLOG_PORT
Ports ==
  { Undefined, NaN, Fraction(0), Fraction(514), Fraction(-1) }
  \cup { Num(n) : n \in { -1, 0, MIN_PORT_NUMBER, MIN_PORT_NUMBER + 1,
                          PRIVILEGED_PORT_THRESHOLD - 1, PRIVILEGED_PORT_THRESHOLD,
                          MAX_PORT_NUMBER - 1, MAX_PORT_NUMBER, MAX_PORT_NUMBER + 1 } }
  \cup { getEnvConfig("LOG_SYSLOG_PORT" :> str).LOG_SYSLOG_PORT : str \in PortStrings }

\* a call validateSyslogPort(port)
CallValidateSyslogPort(port) ==
  /\ probe = NoProbe
  /\ probe' = [fn |-> "validateSyslogPort", port |-> port, out |-> validateSyslogPort(port, env)]
  /\ UNCHANGED << env, logger, currentLoggerInstance, currentOutputMode, currentFileStream,
                  builds, streams, lastFactory, lastCall, requests, lastLog >>

\* hosts, each with what it is: an IP literal ("ip") or not ("name")
Hosts ==
  { << "name", <<>> >>,
    << "ip", <<"1", ".", "2", ".", "3", ".", "4">> >>,                       \* 1.2.3.4
    << "ip", <<"2", "5", "5", ".", "2", "5", "5", ".", "2", "5", "5", ".", "2", "5", "5">> >>, \* 255.255.255.255
    << "ip", <<"1", "2", "7", ".", "0", ".", "0", ".", "1">> >>,             \* 127.0.0.1
    << "ip", <<"0", ".", "0", ".", "0", ".", "0">> >>,                       \* 0.0.0.0
    << "ip", <<":", ":", "1">> >>,                                           \* ::1
    << "ip", <<":", ":">> >>,                                                \* ::
    << "ip", <<"1", ":", "2", ":", "3", ":", "4", ":", "5", ":", "6", ":", "7", ":", "8">> >>, \* 1:2:3:4:5:6:7:8
    << "ip", <<":", ":", "f", "f", "f", "f", ":", "1", ".", "2", ".", "3", ".", "4">> >>, \* ::ffff:1.2.3.4
    << "ip", <<"f", "e", "8", "0", ":", ":", "1", "%", "e", "t", "h", "0">> >>, \* fe80::1%eth0
    << "ip", <<"f", "e", "8", "0", ":", ":", "1", "%">> \o Rep("z", MAX_HOSTNAME_LENGTH) >>,
    << "name", <<"l", "o", "c", "a", "l", "h", "o", "s", "t">> >>,             \* localhost
    << "name", <<"L", "O", "C", "A", "L", "H", "O", "S", "T">> >>,             \* LOCALHOST
    << "name", <<"L", "o", "c", "a", "l", "H", "o", "s", "t">> >>,             \* LocalHost
    << "name", <<"e", "x", "a", "m", "p", "l", "e", ".", "c", "o", "m">> >>,   \* example.com
    << "name", <<"a">> >>,                                                     \* a
    << "name", <<"a", "-", "b">> >>,                                           \* a-b
    << "name", <<"a", "1", ".", "b", "2">> >>,                                 \* a1.b2
    << "name", <<"2", "5", "6", ".", "1", ".", "1", ".", "1">> >>,             \* 256.1.1.1
    << "name", <<"1", ".", "2", ".", "3">> >>,                                 \* 1.2.3
    << "name", <<"0", "1", ".", "2", ".", "3", ".", "4">> >>,                  \* 01.2.3.4
    << "name", <<"1", ".", "2", ".", "3", ".", "4", ".", "5">> >>,             \* 1.2.3.4.5
    << "name", <<"a", "_", "b">> >>,                                           \* a_b
    << "name", <<"-", "a">> >>,                                                \* -a
    << "name", <<"a", "-">> >>,                                                \* a-
    << "name", <<"a", ".", ".", "b">> >>,                                      \* a..b
    << "name", <<"a", ".">> >>,                                                \* a.
    << "name", <<".", "a">> >>,                                                \* .a
    << "name", <<"a", ".", "-", "b">> >>,                                      \* a.-b
    << "name", <<"a", "-", ".", "b">> >>,                                      \* a-.b
    << "name", <<"a", " ", "b">> >>,                                           \* a b
    << "name", <<":", ":", "g">> >>,                                           \* ::g
    << "name", <<"1", ":", "2">> >>,                                           \* 1:2
    << "name", <<"1", ":", "2", ":", "3", ":", "4", ":", "5", ":", "6", ":", "7", ":", "8", ":", "9">> >>, \* 1:2:3:4:5:6:7:8:9
    << "name", <<":", ":", ":", "1">> >>,                                      \* :::1
    << "name", <<"f", "e", "8", "0", ":", ":", "1", "%">> >>,                  \* fe80::1%
    << "name", Rep("a", 63) >>,
    << "name", Rep("a", 64) >>,
    << "name", Rep("a", 63) \o <<".">> \o Rep("b", 63) \o <<".">> \o Rep("c", 63)
                 \o <<".">> \o Rep("d", MAX_HOSTNAME_LENGTH - 192) >>,
    << "name", Rep("a", 63) \o <<".">> \o Rep("b", 63) \o <<".">> \o Rep("c", 63)
                 \o <<".">> \o Rep("d", MAX_HOSTNAME_LENGTH - 194) \o <<".", "e", "e">> >> }

\* a call validateSyslogHost(host)
CallValidateSyslogHost(kind, host) ==
  /\ probe = NoProbe
  /\ probe' = [ fn |-> "validateSyslogHost", kind |-> kind, host |-> host,
                out |-> validateSyslogHost(host, env) ]
  /\ UNCHANGED << env, logger, currentLoggerInstance, currentOutputMode, currentFileStream,
                  builds, streams, lastFactory, lastCall, requests, lastLog >>

\* arguments of validateFileMode: undefined, a string or a number, each
\* with the number it stands for (a string is read as octal digits up to
\* the first character that is none)
FileModes ==
  { << "undefined", <<>>, Undefined >>,
    << "string", <<>>, NaN >>,
    << "string", <<"6", "4", "0">>, Num(416) >>,                   \* "640"
    << "string", <<"0", "6", "4", "0">>, Num(416) >>,              \* "0640"
    << "string", <<"7", "5", "0">>, Num(488) >>,                   \* "750"
    << "string", <<"7", "7", "7">>, Num(511) >>,                   \* "777"
    << "string", <<"1", "0", "0", "0">>, Num(512) >>,              \* "1000"
    << "string", <<"0">>, Num(0) >>,                               \* "0"
    << "string", <<"-", "1">>, Num(-1) >>,                         \* "-1"
    << "string", <<"9">>, NaN >>,                                  \* "9"
    << "string", <<"8">>, NaN >>,                                  \* "8"
    << "string", <<"7", "8">>, Num(7) >>,                          \* "78"
    << "string", <<"a", "b", "c">>, NaN >>,                        \* "abc"
    << "string", <<"6", "4", "x">>, Num(52) >>,                    \* "64x"
    << "string", <<" ", "6", "4", "0">>, Num(416) >>,              \* " 640"
    << "string", <<"0", "o", "6", "4", "0">>, Num(0) >>,           \* "0o640"
    << "string", <<"6", ".", "4">>, Num(6) >>,                     \* "6.4"
    << "number", <<>>, NaN >>,
    << "number", <<>>, Fraction(-1) >>,
    << "number", <<>>, Fraction(0) >>,
    << "number", <<>>, Fraction(416) >>,
    << "number", <<>>, Fraction(MAX_FILE_MODE - 1) >>,
    << "number", <<>>, Fraction(MAX_FILE_MODE) >> }
  \cup { << "number", <<>>, Num(n) >> :
           n \in { -1, 0, 1, DEFAULT_FILE_MODE, LOG_DIRECTORY_MODE,
                   MAX_FILE_MODE - 1, MAX_FILE_MODE, MAX_FILE_MODE + 1 } }

\* a call validateFileMode(mode): kind is the type of the argument, str the
\* argument when a string, number what it stands for
CallValidateFileMode(kind, str, number) ==
  /\ probe = NoProbe
  /\ probe' = [ fn |-> "validateFileMode", kind |-> kind, str |-> str, number |-> number,
                out |-> IF kind = "number" THEN validateNumericMode(number)
                        ELSE validateFileMode(IF kind = "undefined" THEN <<>>
                                              ELSE "LOG_FILE_PERMISSIONS" :> str) ]
  /\ UNCHANGED << env, logger, currentLoggerInstance, currentOutputMode, currentFileStream,
                  builds, streams, lastFactory, lastCall, requests, lastLog >>

ValidationNext ==
  \/ \E path \in LogPaths : CallValidateLogPath(path)
  \/ \E port \in Ports : CallValidateSyslogPort(port)
  \/ \E h \in Hosts : CallValidateSyslogHost(h[1], h[2])
  \/ \E m \in FileModes : CallValidateFileMode(m[1], m[2], m[3])

ValidationSpec == ValidationInit /\ [][ValidationNext]_vars

\* path is dir, or lies below dir with sep as separator
IsUnder(path, dir, sep) ==
  /\ Len(path) >= Len(dir)
  /\ SubSeq(path, 1, Len(dir)) = dir
  /\ Len(path) > Len(dir) => path[Len(dir) + 1] = sep

\* path names a restricted system directory or a file below one
UnderRestricted(path) ==
  \E i \in 1..Len(restrictedPaths) :
    IsUnder(path, restrictedPaths[i], IF restrictedPaths[i][1] = "/" THEN "/" ELSE "\\")

\* the paths C11 says validateLogPath fails for
MustFail(path) ==
  \/ Len(path) = 0
  \/ \E i \in 1..(Len(path) - 1) : path[i] = "." /\ path[i + 1] = "."
  \/ \E i \in 1..Len(path) : path[i] = "\\0"
  \/ Len(path) > MAX_PATH_LENGTH
  \/ UnderRestricted(path)

\* C11: validateLogPath throws for every path that is empty, contains "..",
\* contains a null byte, is longer than MAX_PATH_LENGTH, or is a restricted
\* system directory (the Windows ones included) or a file below one.
C11_RejectsEveryListedPath ==
  (probe.fn = "validateLogPath" /\ MustFail(probe.path)) => probe.out # Ok

\* the process runs in production
InProduction == "NODE_ENV" \in DOMAIN env /\ env["NODE_ENV"] = "production"

\* port is an integer from 1 to 65535
IsValidPort(port) == port.t = "number" /\ port.v >= 1 /\ port.v <= 65535

\* C12: validateSyslogPort accepts undefined and every integer from 1 to
\* 65535 and throws for every other integer, for NaN and for every
\* fractional number; it warns exactly for an accepted port below 1024 in
\* production.
C12_PortAcceptedIffInRange ==
  probe.fn = "validateSyslogPort" =>
    /\ probe.out.err = Ok <=> (probe.port.t = "undefined" \/ IsValidPort(probe.port))
    /\ probe.out.warn # <<>> <=>
         (InProduction /\ IsValidPort(probe.port) /\ probe.port.v < 1024)

C12_Witness ==
  /\ probe.fn = "validateSyslogPort" /\ InProduction
  /\ probe.port = Num(1023) /\ probe.out.err = Ok /\ probe.out.warn # <<>>

\* host is an RFC 1123 hostname: letters, digits, hyphens and dots only,
\* no label empty, none starting or ending with a hyphen, none longer than
\* 63 characters
IsRfc1123Hostname(host) ==
  /\ Len(host) >= 1
  /\ \A i \in 1..Len(host) : host[i] \in AlphaNum \cup {"-", "."}
  /\ host[1] \in AlphaNum /\ host[Len(host)] \in AlphaNum
  /\ \A i \in 1..(Len(host) - 1) :
       /\ host[i] = "." => host[i + 1] \notin {".", "-"}
       /\ host[i] = "-" => host[i + 1] # "."
  /\ \A i \in 1..(Len(host) - 63) : \E j \in i..(i + 63) : host[j] = "."

\* C13: validateSyslogHost accepts every IPv4 or IPv6 literal whatever its
\* length, and accepts any other host exactly when it has at most 255
\* characters and is an RFC 1123 hostname.
C13_HostAcceptedIffValid ==
  probe.fn = "validateSyslogHost" =>
    ( probe.out.err = Ok <=>
        \/ probe.kind = "ip"
        \/ Len(probe.host) <= 255 /\ IsRfc1123Hostname(probe.host) )

C13_Witness ==
  /\ probe.fn = "validateSyslogHost" /\ probe.kind = "ip"
  /\ Len(probe.host) > 255 /\ probe.out.err = Ok

\* n is a number from 0 to 0o777, a fractional one included
IsFileMode(n) ==
  \/ n.t = "number" /\ n.v >= 0 /\ n.v <= 511
  \/ n.t = "fraction" /\ n.v >= 0 /\ n.v <= 510

\* C14: validateFileMode returns a number from 0 to 0o777 for every
\* argument; it returns 0o640 when the argument is undefined, stands for no
\* number, is negative or is above 0o777, and the argument's number
\* otherwise.
C14_FileModeTotal ==
  probe.fn = "validateFileMode" =>
    /\ IsFileMode(probe.out.mode)
    /\ probe.out.mode = IF IsFileMode(probe.number) THEN probe.number ELSE Num(416)

C14_Witness ==
  /\ probe.fn = "validateFileMode" /\ probe.kind = "string"
  /\ probe.number = Num(512) /\ probe.out.mode = Num(416)

\* C20: in production validateSyslogHost accepts each of localhost,
\* 127.0.0.1, ::1 and 0.0.0.0 with a warning, and outside production it
\* accepts them without one.
C20_WarnsForEveryLoopback ==
  (probe.fn = "validateSyslogHost" /\ toLowerCase(probe.host) \in localhostVariants) =>
    /\ probe.out.err = Ok
    /\ probe.out.warn # <<>> <=> InProduction

\* the value of LOG_LEVEL, "" when unset or empty
LevelOverride == IF "LOG_LEVEL" \in DOMAIN env THEN env["LOG_LEVEL"] ELSE ""

\* the level when nothing overrides it
DefaultLevel == IF InProduction THEN "info" ELSE "debug"

InTest == "NODE_ENV" \in DOMAIN env /\ env["NODE_ENV"] = "test"

\* C15 as stated: the level of every configuration the factory returns is
\* silent when NODE_ENV is test, and otherwise LOG_LEVEL when set, else
\* info in production and debug elsewhere.
C15_LevelAsStated ==
  lastFactory.result.config.level =
    IF InTest THEN "silent"
    ELSE IF LevelOverride # "" THEN LevelOverride ELSE DefaultLevel

\* C15 amended: with NODE_ENV test the level is LOG_LEVEL when set and
\* silent otherwise; outside test it is silent for the null output mode,
\* and for every other mode LOG_LEVEL when set, else info in production
\* and debug elsewhere.
C15_LevelOfConfig ==
  lastFactory.result.config.level =
    IF InTest THEN (IF LevelOverride # "" THEN LevelOverride ELSE "silent")
    ELSE IF FactoryMode = "null" THEN "silent"
    ELSE IF LevelOverride # "" THEN LevelOverride ELSE DefaultLevel

C15_Witness ==
  /\ InTest /\ LevelOverride = "warn" /\ lastFactory.mode = "file"
  /\ lastFactory.result.config.level = "warn"

\* the output mode the last factory call has to work for: its argument,
\* else LOG_OUTPUT, else stdout
ExpectedOutput ==
  IF lastFactory.mode # "" THEN lastFactory.mode
  ELSE IF "LOG_OUTPUT" \in DOMAIN env /\ env["LOG_OUTPUT"] # "" THEN env["LOG_OUTPUT"]
  ELSE "stdout"

\* C16: the factory returns what it returns for an explicit request of the
\* expected output mode (the argument, else LOG_OUTPUT, else stdout); with
\* no argument and LOG_OUTPUT, NODE_ENV and LOG_LEVEL unset that is the
\* stdout configuration of development, at level debug.
C16_EffectiveOutput ==
  /\ \E mkdirOk \in BOOLEAN :
       lastFactory.result =
         configFor(ExpectedOutput, createBaseConfig(logLevelOf(getEnvConfig(env))),
                   getEnvConfig(env), env, mkdirOk)
  /\ ( /\ lastFactory.mode = ""
       /\ DOMAIN env \cap {"LOG_OUTPUT", "NODE_ENV", "LOG_LEVEL"} = {} ) =>
       /\ lastFactory.result.config.level = "debug"
       /\ lastFactory.result.config.transport = PrettyTransport

C16_Witness ==
  /\ lastFactory.mode = ""
  /\ "LOG_OUTPUT" \in DOMAIN env /\ "LOG_FILE_PATH" \notin DOMAIN env /\ ~InTest
  /\ lastFactory.result.config.transport.target \in FileTargets

\* sensitive field names, and the keys above them in a logged object
SensitiveNames == {"password", "token", "secret", "authorization", "api_key", "apiKey"}
KeysAbove == { <<>>, <<"user">>, <<"req">>, <<"req", "headers">>, <<"a", "b", "c">> }

\* C17: every configuration the factory returns removes the value of each
\* sensitive field name at whatever depth of the logged object it occurs.
C17_RedactsAtAnyDepth ==
  /\ lastFactory.result.config.redact.remove
  /\ \A name \in SensitiveNames, above \in KeysAbove :
       IsRedacted(lastFactory.result.config.redact, above \o <<name>>)

\* C18: the mode getLoggerOutputMode reports changes only in a step of
\* switchLogOutput: not in a log call, a call of getLoggerOutputMode,
\* createChildLogger or withTraceContext, a health request or a change of
\* LOG_OUTPUT.
C18_ModeChangesOnlyBySwitch ==
  [][ getLoggerOutputMode' # getLoggerOutputMode =>
        \E m \in SwitchArgs, mkdirOk \in BOOLEAN : switchLogOutput(m, mkdirOk) ]_vars

\* C19: GET answers 200 with status healthy, the uptime of the process, the
\* application name NEXT_PUBLIC_APP_NAME or else agentic-nextjs-ts-starter
\* and the version npm_package_version or else unknown, whatever the state
\* of the logger.
C19_HealthResponse ==
  probe.fn = "GET" =>
    /\ probe.status = 200
    /\ probe.body.status = "healthy"
    /\ probe.body.uptime = probe.uptime
    /\ probe.body.application =
         IF "NEXT_PUBLIC_APP_NAME" \in DOMAIN env /\ env["NEXT_PUBLIC_APP_NAME"] # ""
           THEN env["NEXT_PUBLIC_APP_NAME"] ELSE "agentic-nextjs-ts-starter"
    /\ probe.body.version =
         IF "npm_package_version" \in DOMAIN env /\ env["npm_package_version"] # ""
           THEN env["npm_package_version"] ELSE "unknown"

C19_Witness ==
  /\ probe.fn = "GET" /\ probe.uptime = 12345 /\ probe.body.application = "my-app"
  /\ builds > 0 /\ currentOutputMode = "file"

\* the warnings of the observed call hold the 'permissions too open' warning
WarnsTooOpen ==
  \E i \in DOMAIN probe.out.warn :
    probe.out.warn[i] = "Warning: Log file permissions allow access to other users/groups"

\* C21: validateFileMode warns that the permissions are too open exactly
\* when the mode it returns has one of the bits of the other users (0o007)
\* set, and then returns the given mode unchanged; 0o640 and 0o750 given
\* explicitly produce no such warning.
C21_WarnsOnlyForOtherUsers ==
  probe.fn = "validateFileMode" =>
    /\ WarnsTooOpen <=> probe.out.mode.v % 8 # 0
    /\ WarnsTooOpen => probe.out.mode = probe.number

\* the configuration the factory returns for an explicit stdout
ConfigForStdout == getLoggerConfig("stdout", env, TRUE).config

InDevelopment == getEnvConfig(env).NODE_ENV = "development"

\* C22 as stated: in every runtime mode the factory returns for stderr the
\* configuration it returns for stdout.
C22_StderrAsStdout ==
  lastFactory.mode = "stderr" => lastFactory.result.config = ConfigForStdout

\* C22: the factory returns for stderr the configuration it returns for
\* stdout, less the pino-pretty transport that stdout has in development;
\* stderr alone gets file descriptor 2 as its destination.
C22_StderrAsStdoutLessPretty ==
  lastFactory.mode = "stderr" =>
    /\ lastFactory.result.config =
         IF InDevelopment THEN [ConfigForStdout EXCEPT !.transport = NoTransport]
         ELSE ConfigForStdout
    /\ InDevelopment => ConfigForStdout.transport = PrettyTransport
    /\ getDestination("stderr", env) = "fd2"
    /\ getDestination("stdout", env) = "none"

C22_Witness ==
  /\ lastFactory.mode = "stderr" /\ "NODE_ENV" \notin DOMAIN env
  /\ lastFactory.result.config.transport = NoTransport
  /\ ConfigForStdout.transport = PrettyTransport

\* C23 as stated: for stdout the factory returns the pretty format in
\* development and the production format, with the correlation id mixin, in
\* every other runtime mode.
C23_PrettyElseProduction ==
  ExpectedOutput = "stdout" =>
    IF InDevelopment
      THEN lastFactory.result.config.transport = PrettyTransport
      ELSE /\ lastFactory.result.config.transport = NoTransport
           /\ lastFactory.result.config.mixin = "correlationId"
           /\ lastFactory.result.config.formatters = "level"

\* C23: for stdout the factory returns the pretty format exactly in
\* development and the production format, with the correlation id mixin,
\* exactly in production; in test and under any other NODE_ENV it returns
\* the structured format without the mixin.
C23_PrettyProductionOrBase ==
  ExpectedOutput = "stdout" =>
    /\ lastFactory.result.config.transport =
         IF InDevelopment THEN PrettyTransport ELSE NoTransport
    /\ lastFactory.result.config.mixin =
         IF getEnvConfig(env).NODE_ENV = "production" THEN "correlationId" ELSE "none"
    /\ lastFactory.result.config.formatters =
         IF getEnvConfig(env).NODE_ENV = "production" THEN "level" ELSE "none"

C23_Witness ==
  /\ ExpectedOutput = "stdout" /\ lastFactory.mode = "stdout"
  /\ "NODE_ENV" \in DOMAIN env /\ env["NODE_ENV"] = "staging"
  /\ lastFactory.result.config.transport = NoTransport
  /\ lastFactory.result.config.mixin = "none"

\* the last factory call worked for file output: the path passed and the
\* directory was made
FileWorked == ExpectedOutput = "file" /\ lastFactory.result.diags = <<>>

\* C24: in file mode with a valid path the transport rotates by size
\* (pino-roll) when LOG_FILE_MAX_SIZE is set and is a single file (pino/file)
\* when it is not; a size of the form number, unit is parsed to
\* floor(value * multiplier); a rotating transport has a file count exactly
\* when LOG_FILE_MAX_FILES is set.
C24_RotatesWhenSizeConfigured ==
  FileWorked =>
    /\ lastFactory.result.config.transport.target =
         IF "LOG_FILE_MAX_SIZE" \in DOMAIN env THEN "pino-roll" ELSE "pino/file"
    /\ \A p \in Sizes :
         ("LOG_FILE_MAX_SIZE" \in DOMAIN env /\ env["LOG_FILE_MAX_SIZE"] = p[1]
            /\ p[2] # Undefined) =>
           parseSizeToBytes(env["LOG_FILE_MAX_SIZE"]) = p[2]
    /\ lastFactory.result.config.transport.target = "pino-roll" =>
         (lastFactory.result.config.transport.options.hasLimit
            <=> "LOG_FILE_MAX_FILES" \in DOMAIN env)

LevelAfterSwitch ==
  IF InTest THEN (IF LevelOverride # "" THEN LevelOverride ELSE "silent")
  ELSE IF lastCall.mode = "null" THEN "silent"
  ELSE IF LevelOverride # "" THEN LevelOverride
  ELSE DefaultLevel

LogsAs(inst, config, l) ==
  /\ LogVia(inst, l).written <=> (LevelValue(l) >= LevelValue(config.level))
  /\ LogVia(inst, l).written =>
       /\ LogVia(inst, l).timestamp = config.timestamp
       /\ LogVia(inst, l).mixin = config.mixin
       /\ LogVia(inst, l).redact = config.redact
       /\ LogVia(inst, l).stream.target = config.transport.target
       /\ LogVia(inst, l).stream.kind =
            IF config.transport.target # "none" THEN "transport"
            ELSE IF LogVia(inst, l).stream.kind = "stderr" THEN "stderr" ELSE "stdout"

\* a child logger keeps, through every later switch, the configuration
\* that was active when it was created
ChildKeepsConfig ==
  probe.fn = "createChildLogger" =>
    \A l \in {"debug", "info", "error"} : LogsAs(probe.child, probe.active, l)

\* C26: a child logger made by createChildLogger logs, after any later
\* switch, with the configuration that was active when it was made (so also
\* a child made after a switch with the new one), and after a switch the
\* exported logger logs with the new configuration.
C26_ChildrenKeepHandleFollows ==
  /\ ChildKeepsConfig
  /\ Switched =>
       \A l \in {"debug", "info", "error"} : LogsAs(logger, lastCall.built.config, l)

\* C27: a call of switchLogOutput in which building the new logger raises
\* leaves the mode getLoggerOutputMode reports and the exported logger as
\* they were, and a later call for the same mode is not a call for the
\* current mode.
C27_FailedSwitchChangesNothing ==
  [][ ( /\ \E m \in SwitchArgs, mkdirOk \in BOOLEAN : switchLogOutput(m, mkdirOk)
        /\ lastCall'.threw ) =>
        /\ getLoggerOutputMode' = getLoggerOutputMode
        /\ logger' = logger
        /\ currentOutputMode' # lastCall'.mode ]_vars

\* C28: validateLogPath throws the restricted directory error only for a
\* path whose normalized absolute form is a restricted directory or lies
\* below one; a relative path, which resolves below the working directory
\* (taken to be outside the restricted directories), never gets that error.
C28_RestrictedOnlyOnBoundary ==
  ( /\ probe.fn = "validateLogPath"
    /\ probe.out = "Log file path cannot be in restricted directory" ) =>
    /\ isAbsolute(probe.path)
    /\ UnderRestricted(normalize(probe.path))

\* C29: when NODE_ENV is test the factory returns, whatever output mode is
\* asked for and whatever the path, host and port settings are, the base
\* configuration at level LOG_LEVEL or else silent, with no transport; it
\* runs no validator, makes no directory, writes no warning and records no
\* diagnostic.
C29_TestConfigIgnoresMode ==
  InTest =>
    /\ lastFactory.result.config =
         createBaseConfig(IF LevelOverride # "" THEN LevelOverride ELSE "silent")
    /\ lastFactory.result.config.transport = NoTransport
    /\ lastFactory.result.raised = NoError
    /\ lastFactory.result.checks = <<>>
    /\ lastFactory.result.mkdirs = <<>>
    /\ lastFactory.result.warns = <<>>
    /\ lastFactory.result.diags = <<>>

C29_Witness ==
  /\ InTest /\ lastFactory.mode = "file"
  /\ "LOG_FILE_PATH" \in DOMAIN env /\ env["LOG_FILE_PATH"] = PathEtcPasswd
  /\ "LOG_LEVEL" \notin DOMAIN env
  /\ lastFactory.result.config.level = "silent"
  /\ lastFactory.result.diags = <<>>

\* what the last factory call returns in the same environment less
\* LOG_FILE_PERMISSIONS, mkdirSync succeeding or failing as it did
WithoutPermissions ==
  getLoggerConfig(lastFactory.mode,
                  [k \in DOMAIN env \ {"LOG_FILE_PERMISSIONS"} |-> env[k]],
                  lastFactory.result.diags = <<>>)

\* C30: the factory returns the same configuration, records the same
\* diagnostics and makes the same directory as it does without
\* LOG_FILE_PERMISSIONS, and every directory it makes has mode 0o750.
C30_PermissionsUnused ==
  /\ lastFactory.result.config = WithoutPermissions.config
  /\ lastFactory.result.diags = WithoutPermissions.diags
  /\ lastFactory.result.mkdirs = WithoutPermissions.mkdirs
  /\ \A i \in DOMAIN lastFactory.result.mkdirs :
       lastFactory.result.mkdirs[i].mode = 488

C30_Witness ==
  /\ "LOG_FILE_PERMISSIONS" \in DOMAIN env
  /\ env["LOG_FILE_PERMISSIONS"] = <<"7", "7", "7">>
  /\ lastFactory.mode = "file"
  /\ lastFactory.result.config.transport.target \in FileTargets
  /\ lastFactory.result.warns # <<>>
  /\ Len(lastFactory.result.mkdirs) = 1
  /\ lastFactory.result.mkdirs[1].mode = 488

====
